---- MODULE Spec2Model ----
(***************************************************************************)
(* A model of the query portal's persistent state (the users and queries   *)
(* tables, the upload directory) and of the request handlers that read and *)
(* change it.  Each handler is one action; the request data are its        *)
(* parameters, drawn from small sets by the next-state relations.          *)
(*                                                                         *)
(* Conventions.  A nullable column or an Optional request field holds      *)
(* None (the empty tuple) or Some(v) (the one-element tuple <<v>>).  An    *)
(* enum member is a record naming the module and class that define it,     *)
(* because the source has two unrelated families of enum classes           *)
(* (schemas.query and models.query) and Python compares their members      *)
(* differently.  `last` records the latest request and its outcome.        *)
(***************************************************************************)
EXTENDS Integers, Sequences, FiniteSets, TLC

VARIABLES users, queries, uploads, admin_users, now, last, sessions

vars == <<users, queries, uploads, admin_users, now, last, sessions>>

-----------------------------------------------------------------------------
(* Bounds of the model.                                                    *)

\* Rows the queries table holds when several queries matter.
MaxQueries == 2

\* Rows the queries table holds when a claim is about one query.
MaxOpen == 1

\* The largest value of the clock.
MaxTime == 2

\* The longest resolution_notes text.
MaxNotesLen == 40

\* Files the upload directory holds.
MaxUploads == 1

-----------------------------------------------------------------------------
(* Python values.                                                          *)

None == <<>>

Some(v) == <<v>>

\* bool(x) for an Optional[str]: None and "" are falsy.
Truthy(o) == o # None /\ o[1] # ""

\* Outcomes of a request, in the words of the error taxonomy.
OK == "OK"

NotFound == "NotFound"

ValidationError == "ValidationError"

InternalError == "InternalError"

\* A member of one of the (str, Enum) classes of schemas/query.py.
SchemaEnum(e, n) == [module |-> "schemas.query", enum |-> e, name |-> n]

\* A member of one of the enum.Enum classes of models/query.py.
ModelEnum(e, n) == [module |-> "models.query", enum |-> e, name |-> n]

QueryCategoryNames == {"IT", "MAINTENANCE", "RECTOR", "WARDEN", "ADMINISTRATION"}

QueryPriorityNames == {"LOW", "MEDIUM", "HIGH"}

QueryStatusNames == {"PENDING", "IN_PROGRESS", "RESOLVED", "CLOSED"}

\* a == b for two enum members.  Members of the str-based schema classes
\* compare as strings (str.__eq__ on their values, which equal their names);
\* a member of a plain enum.Enum class is not a str nor defines __eq__, so it
\* is equal only to itself.
EnumEq(a, b) ==
    IF a.module = "schemas.query" /\ b.module = "schemas.query"
    THEN a.name = b.name
    ELSE a = b

\* What an Enum(models.X) column holds once a row is committed and
\* refreshed: the member of the model class looked up by the value's name.
EnumColumn(v) == ModelEnum(v.enum, v.name)

\* An upper() that leaves the string as it is.
Upper_AsIs(s) == s

\* str.upper() on the strings the requests carry.
Upper(s) ==
    CASE s = "it" -> "IT"
      [] s = "It" -> "IT"
      [] s = "maintenance" -> "MAINTENANCE"
      [] s = "warden" -> "WARDEN"
      [] s = "physics" -> "PHYSICS"
      [] OTHER -> s

\* A strip that leaves the string as it is.
Strip_Nothing(s) == s

\* str.strip() on the strings the requests carry.
Strip(s) ==
    CASE s = " Printer broken " -> "Printer broken"
      [] s = "No toner  " -> "No toner"
      [] s = "   " -> ""
      [] OTHER -> s

\* Path(name).suffix on the file names the requests carry.
Suffix(name) ==
    CASE name = "photo.png" -> ".png"
      [] name = "notes.txt" -> ".txt"
      [] name = "scan.pdf" -> ".pdf"
      [] OTHER -> ""

IsPrefix(a, b) == Len(a) <= Len(b) /\ SubSeq(b, 1, Len(a)) = a

Max(S) == CHOOSE m \in S : \A x \in S : x <= m

\* The id a table gives a new row: an INTEGER PRIMARY KEY of the default
\* SQLite store is one more than the largest id in the table.
NewId(table) == IF DOMAIN table = {} THEN 1 ELSE Max(DOMAIN table) + 1

\* The table without the row of key id.
Without(table, id) == [k \in DOMAIN table \ {id} |-> table[k]]

\* The table with row r stored under key id.
With(table, id, r) == [k \in DOMAIN table \cup {id} |-> IF k = id THEN r ELSE table[k]]

-----------------------------------------------------------------------------
(* The queries table.                                                      *)

\* Query(...) as create_query builds it, with the column defaults the
\* INSERT applies (status PENDING, timestamps now, the rest NULL).
Query(user_id, data) ==
    [user_id             |-> user_id,
     category            |-> data.category,
     subject             |-> data.subject,
     description         |-> data.description,
     priority            |-> data.priority,
     status              |-> ModelEnum("QueryStatus", "PENDING"),
     attachment_filename |-> data.attachment_filename,
     attachment_path     |-> None,
     attachment_data     |-> None,
     attachment_type     |-> None,
     attachment_size     |-> None,
     contact_info        |-> data.contact_info,
     created_at          |-> now,
     updated_at          |-> now,
     resolved_at         |-> None,
     assigned_to         |-> None,
     assigned_member_id  |-> None,
     assigned_user       |-> None,
     resolution_notes    |-> None]

\* db.commit(); db.refresh(q): the enum columns come back as members of the
\* model classes.
Refresh(q) ==
    [q EXCEPT !.category = EnumColumn(@),
              !.priority = EnumColumn(@),
              !.status   = EnumColumn(@)]

\* QueryCreate with LOW as the priority default.
QueryCreate_DefaultLow(raw) ==
    IF Strip(raw.subject) = "" \/ Strip(raw.description) = ""
    THEN None
    ELSE Some([category            |-> raw.category,
               subject             |-> Strip(raw.subject),
               description         |-> Strip(raw.description),
               priority            |-> IF raw.priority = None
                                       THEN SchemaEnum("QueryPriority", "LOW")
                                       ELSE raw.priority[1],
               contact_info        |-> raw.contact_info,
               attachment_filename |-> raw.attachment_filename,
               attachment_data     |-> raw.attachment_data])

\* The QueryCreate schema applied to a request body: it keeps the seven
\* declared fields (any other key of the body is ignored), applies the
\* priority default and runs the two validators.  The result is None when
\* a validator raises.
QueryCreate(raw) ==
    IF Strip(raw.subject) = "" \/ Strip(raw.description) = ""
    THEN None
    ELSE Some([category            |-> raw.category,
               subject             |-> Strip(raw.subject),
               description         |-> Strip(raw.description),
               priority            |-> IF raw.priority = None
                                       THEN SchemaEnum("QueryPriority", "MEDIUM")
                                       ELSE raw.priority[1],
               contact_info        |-> raw.contact_info,
               attachment_filename |-> raw.attachment_filename,
               attachment_data     |-> raw.attachment_data])

\* attachment.get(key) on the attachment_data dict, whose values are
\* Optional (a JSON null is None).
Get(dict, key) == IF key \in DOMAIN dict THEN dict[key] ELSE None

\* The file a handler writes: UPLOAD_DIR / f"{uuid.uuid4()}{suffix}".  The
\* uuid is fresh: it names no file written before.
NewPath(name) == [dir |-> "uploads", uuid |-> Cardinality(uploads) + 1, suffix |-> Suffix(name)]

\* An attachment of which the record keeps the file name only.
Attach_NameOnly(q, att) ==
    IF att # None /\ DOMAIN att[1] # {}
    THEN [q EXCEPT !.attachment_filename = Get(att[1], "filename")]
    ELSE q

\* if query_data.attachment_data: the record takes the file name, the
\* base64 content, the type and the size of the inline attachment.
Attach(q, att) ==
    IF att # None /\ DOMAIN att[1] # {}
    THEN [q EXCEPT !.attachment_filename = Get(att[1], "filename"),
                   !.attachment_data = Get(att[1], "content"),
                   !.attachment_type = Get(att[1], "type"),
                   !.attachment_size = Get(att[1], "size")]
    ELSE q

create_query(raw, user_id, fs_ok) ==
    LET v == QueryCreate(raw) IN
    IF v = None
    THEN /\ last' = [op |-> "create_query", id |-> None,
                     req |-> [data |-> raw, user_id |-> user_id],
                     result |-> ValidationError, before |-> None]
         /\ UNCHANGED <<users, queries, uploads, now, admin_users, sessions>>
    ELSE IF user_id \notin DOMAIN users
    THEN /\ last' = [op |-> "create_query", id |-> None,
                     req |-> [data |-> raw, user_id |-> user_id],
                     result |-> NotFound, before |-> None]
         /\ UNCHANGED <<users, queries, uploads, now, admin_users, sessions>>
    ELSE
      LET data == v[1]
          q0 == Query(user_id, data)
          att == data.attachment_data
          q1 == Attach(q0, att)
          saves == /\ att # None /\ DOMAIN att[1] # {}
                   /\ Truthy(Get(att[1], "content"))
                   /\ Truthy(Get(att[1], "filename"))
                   /\ fs_ok
          path == IF saves THEN NewPath(Get(att[1], "filename")[1]) ELSE None
          q2 == IF saves THEN [q1 EXCEPT !.attachment_path = Some(path)] ELSE q1
          id == NewId(queries)
      IN /\ queries' = With(queries, id, Refresh(q2))
         /\ uploads' = IF saves THEN uploads \cup {path} ELSE uploads
         /\ last' = [op |-> "create_query", id |-> Some(id),
                     req |-> [data |-> raw, user_id |-> user_id],
                     result |-> OK, before |-> None]
         /\ UNCHANGED <<users, now, admin_users, sessions>>


\* One field of the request as the loop of update_query applies it:
\* setattr(query, field, value) when the value is not None.
SetIfGiven(old, value) == IF value # None THEN value ELSE old

\* The same for a column that is not nullable (an enum column): the
\* attribute takes the request's enum member itself.
SetEnumIfGiven(old, value) == IF value # None THEN value[1] ELSE old

\* The loop without its test for None on the nullable columns.
ApplyFields_Nulls(q, r) ==
    [q EXCEPT !.status             = SetEnumIfGiven(@, r.status),
              !.category           = SetEnumIfGiven(@, r.category),
              !.assigned_to        = r.assigned_to,
              !.assigned_member_id = r.assigned_member_id,
              !.assigned_user      = r.assigned_user,
              !.resolution_notes   = r.resolution_notes]

\* The loop over update_data: every field of the request that is an
\* attribute of Query (admin_response is not) and is not None.
ApplyFields(q, r) ==
    [q EXCEPT !.status             = SetEnumIfGiven(@, r.status),
              !.category           = SetEnumIfGiven(@, r.category),
              !.assigned_to        = SetIfGiven(@, r.assigned_to),
              !.assigned_member_id = SetIfGiven(@, r.assigned_member_id),
              !.assigned_user      = SetIfGiven(@, r.assigned_user),
              !.resolution_notes   = SetIfGiven(@, r.resolution_notes)]

\* department_to_category.get(key): the identity on the five departments.
department_to_category(key) == IF key \in QueryCategoryNames THEN Some(key) ELSE None

\* The transfer rule looking the department up without upper().
CoerceCategory_CaseSensitive(q, r) ==
    IF Truthy(r.assigned_to) /\ department_to_category(r.assigned_to[1]) # None
    THEN [q EXCEPT !.category =
             ModelEnum("QueryCategory", department_to_category(r.assigned_to[1])[1])]
    ELSE q

\* The transfer rule: a truthy assigned_to that names a department (in any
\* letter case) sets the category to that department's member of the model
\* enum.
CoerceCategory(q, r) ==
    IF Truthy(r.assigned_to) /\ department_to_category(Upper(r.assigned_to[1])) # None
    THEN [q EXCEPT !.category =
             ModelEnum("QueryCategory", department_to_category(Upper(r.assigned_to[1]))[1])]
    ELSE q

\* query_update.status == QueryStatus.RESOLVED, where the left side is a
\* member of schemas.query.QueryStatus (or None) and the right side is the
\* member of models.query.QueryStatus the handler's module imports.
IsResolvedRequest(r) ==
    r.status # None /\ EnumEq(r.status[1], ModelEnum("QueryStatus", "RESOLVED"))

\* The resolved_at stamp.
StampResolved(q, r) ==
    IF IsResolvedRequest(r) /\ q.resolved_at = None
    THEN [q EXCEPT !.resolved_at = Some(now)]
    ELSE q

\* The admin response appended to (or starting) the notes.
AppendResponse(q, r) ==
    IF Truthy(r.admin_response)
    THEN IF Truthy(q.resolution_notes)
         THEN [q EXCEPT !.resolution_notes =
                  Some(@[1] \o "\n\nAdmin Response: " \o r.admin_response[1])]
         ELSE [q EXCEPT !.resolution_notes =
                  Some("Admin Response: " \o r.admin_response[1])]
    ELSE q

\* The record update_query commits.
Updated(q, r) ==
    [AppendResponse(StampResolved(CoerceCategory(ApplyFields(q, r), r), r), r)
        EXCEPT !.updated_at = now]

\* A rollback that keeps what was assigned to the record.
Rollback_Flushed(query_id, q) == With(queries, query_id, q)

\* db.rollback() after a commit that failed: the assignments made to the
\* loaded record q are discarded and the table is as it was.
Rollback(query_id, q) == queries

update_query(query_id, query_update, commit_ok) ==
    IF query_id \notin DOMAIN queries
    THEN /\ last' = [op |-> "update_query", id |-> Some(query_id), req |-> query_update,
                     result |-> NotFound, before |-> None]
         /\ UNCHANGED <<users, queries, uploads, now, admin_users, sessions>>
    ELSE
      LET q == Updated(queries[query_id], query_update) IN
      /\ IF commit_ok
         THEN /\ queries' = With(queries, query_id, Refresh(q))
              /\ last' = [op |-> "update_query", id |-> Some(query_id),
                          req |-> query_update, result |-> OK,
                          before |-> Some(queries[query_id])]
         ELSE /\ queries' = Rollback(query_id, q)
              /\ last' = [op |-> "update_query", id |-> Some(query_id),
                          req |-> query_update, result |-> InternalError,
                          before |-> Some(queries[query_id])]
      /\ UNCHANGED <<users, uploads, now, admin_users, sessions>>

get_query_by_id(query_id) ==
    /\ last' = [op |-> "get_query_by_id", id |-> Some(query_id), req |-> None,
                result |-> IF query_id \in DOMAIN queries THEN OK ELSE NotFound,
                before |-> IF query_id \in DOMAIN queries
                           THEN Some(queries[query_id]) ELSE None]
    /\ UNCHANGED <<users, queries, uploads, now, admin_users, sessions>>

\* delete_query answering a missing id with success.
delete_query_Silent(query_id) ==
    /\ queries' = Without(queries, query_id)
    /\ last' = [op |-> "delete_query", id |-> Some(query_id), req |-> None,
                result |-> OK, before |-> None]
    /\ UNCHANGED <<users, uploads, now, admin_users, sessions>>

delete_query(query_id) ==
    IF query_id \notin DOMAIN queries
    THEN /\ last' = [op |-> "delete_query", id |-> Some(query_id), req |-> None,
                     result |-> NotFound, before |-> None]
         /\ UNCHANGED <<users, queries, uploads, now, admin_users, sessions>>
    ELSE /\ queries' = Without(queries, query_id)
         /\ last' = [op |-> "delete_query", id |-> Some(query_id), req |-> None,
                     result |-> OK, before |-> Some(queries[query_id])]
         /\ UNCHANGED <<users, uploads, now, admin_users, sessions>>

\* A set of types that admits GIF images too.
allowed_types_WithGif ==
    {"image/jpeg", "image/png", "image/gif", "application/pdf", "text/plain"}

allowed_types == {"image/jpeg", "image/png", "application/pdf", "text/plain"}

\* 10 * 1024 * 1024
MaxUploadBytes == 10485760

upload_attachment(query_id, file, fs_ok) ==
    IF query_id \notin DOMAIN queries
    THEN /\ last' = [op |-> "upload_attachment", id |-> Some(query_id), req |-> file,
                     result |-> NotFound, before |-> None]
         /\ UNCHANGED <<users, queries, uploads, now, admin_users, sessions>>
    ELSE IF file.content_type \notin allowed_types \/ file.size > MaxUploadBytes
    THEN /\ last' = [op |-> "upload_attachment", id |-> Some(query_id), req |-> file,
                     result |-> ValidationError, before |-> Some(queries[query_id])]
         /\ UNCHANGED <<users, queries, uploads, now, admin_users, sessions>>
    ELSE IF ~fs_ok
    THEN /\ last' = [op |-> "upload_attachment", id |-> Some(query_id), req |-> file,
                     result |-> InternalError, before |-> Some(queries[query_id])]
         /\ UNCHANGED <<users, queries, uploads, now, admin_users, sessions>>
    ELSE
      LET path == NewPath(file.filename) IN
      /\ uploads' = uploads \cup {path}
      /\ queries' = [queries EXCEPT ![query_id].attachment_filename = Some(file.filename),
                                    ![query_id].attachment_path = Some(path),
                                    ![query_id].updated_at = now]
      /\ last' = [op |-> "upload_attachment", id |-> Some(query_id), req |-> file,
                  result |-> OK, before |-> Some(queries[query_id])]
      /\ UNCHANGED <<users, now, admin_users, sessions>>

\* Time passes between requests: the value func.now() gives grows.
Tick ==
    /\ now < MaxTime
    /\ now' = now + 1
    /\ last' = [op |-> "tick", id |-> None, req |-> None, result |-> OK, before |-> None]
    /\ UNCHANGED <<users, queries, uploads, admin_users, sessions>>

-----------------------------------------------------------------------------
(* The users table.                                                        *)

DEPARTMENT_CONFIG == {"IT", "MAINTENANCE", "RECTOR", "WARDEN", "ADMINISTRATION"}

\* User.hash_password: the SHA-256 digest of the password, one digest per
\* password.
hash_password(password) == "sha256:" \o password

\* User(...) as the handlers build it, with the column defaults
\* (is_department_head False, is_active True, status "Active").
User(full_name, email, password, role, department, phone, position, status) ==
    [full_name          |-> full_name,
     email              |-> email,
     password_hash      |-> hash_password(password),
     role               |-> role,
     department         |-> department,
     is_department_head |-> FALSE,
     is_active          |-> TRUE,
     phone              |-> phone,
     position           |-> position,
     status             |-> status,
     created_at         |-> now]

\* A lookup that never finds the email.
EmailTaken_Never(email) == FALSE

\* db.query(User).filter(User.email == email).first() finds a row.
EmailTaken(email) == \E u \in DOMAIN users : users[u].email = email

signup(user_data) ==
    IF user_data.password # user_data.confirm_password
    THEN /\ last' = [op |-> "signup", id |-> None, req |-> user_data,
                     result |-> ValidationError, before |-> None,
                     detail |-> "Passwords do not match"]
         /\ UNCHANGED <<users, queries, uploads, now, admin_users, sessions>>
    ELSE IF EmailTaken(user_data.email)
    THEN /\ last' = [op |-> "signup", id |-> None, req |-> user_data,
                     result |-> ValidationError, before |-> None,
                     detail |-> "Email already registered"]
         /\ UNCHANGED <<users, queries, uploads, now, admin_users, sessions>>
    ELSE
      LET department ==
              IF Truthy(user_data.role) /\ Upper(user_data.role[1]) \in DEPARTMENT_CONFIG
              THEN Some(Upper(user_data.role[1]))
              ELSE IF Truthy(user_data.department)
                   THEN Some(Upper(user_data.department[1]))
                   ELSE None
          role == IF Truthy(user_data.role) THEN user_data.role[1] ELSE "student"
          id == NewId(users)
      IN /\ users' = With(users, id,
                          User(user_data.full_name, user_data.email, user_data.password,
                               role, department, user_data.phone, user_data.position,
                               "Active"))
         /\ last' = [op |-> "signup", id |-> Some(id), req |-> user_data,
                     result |-> OK, before |-> None, detail |-> "Account created successfully"]
         /\ UNCHANGED <<queries, uploads, now, admin_users, sessions>>

\* str.lower() on the department identifiers.
Lower(s) ==
    CASE s = "IT" -> "it"
      [] s = "MAINTENANCE" -> "maintenance"
      [] s = "RECTOR" -> "rector"
      [] s = "WARDEN" -> "warden"
      [] s = "ADMINISTRATION" -> "administration"
      [] OTHER -> s

\* The ids of the users flagged as department head.
Heads == {u \in DOMAIN users : users[u].is_department_head}

\* The outcome of a request on the users table.
Answer(op, id, req, result) ==
    [op |-> op, id |-> id, req |-> req, result |-> result, before |-> Some(Heads)]

\* The checks that open the member handlers: the department exists, the
\* user exists, the user belongs to the department.
MemberCheck(dept_id, user_id) ==
    IF dept_id \notin DEPARTMENT_CONFIG THEN NotFound
    ELSE IF user_id \notin DOMAIN users THEN NotFound
    ELSE IF users[user_id].department # Some(dept_id) THEN ValidationError
    ELSE OK

add_department_member(department_id, user_data) ==
    LET dept_id == Upper(department_id)
        req == [department_id |-> department_id, data |-> user_data]
        refused ==
            IF dept_id \notin DEPARTMENT_CONFIG THEN NotFound
            ELSE IF user_data.password # user_data.confirm_password THEN ValidationError
            ELSE IF EmailTaken(user_data.email) THEN ValidationError
            ELSE OK
        id == NewId(users)
    IN IF refused # OK
       THEN /\ last' = Answer("add_department_member", None, req, refused)
            /\ UNCHANGED <<users, queries, uploads, now, admin_users, sessions>>
       ELSE /\ users' = With(users, id,
                             User(user_data.full_name, user_data.email, user_data.password,
                                  Lower(dept_id), Some(dept_id), user_data.phone,
                                  user_data.position, "Active"))
            /\ last' = Answer("add_department_member", Some(id), req, OK)
            /\ UNCHANGED <<queries, uploads, now, admin_users, sessions>>

\* The bulk update that clears the flag of active members only.
ClearHeads_ActiveOnly(table, dept_id) ==
    [u \in DOMAIN table |->
        IF table[u].department = Some(dept_id) /\ table[u].is_active
        THEN [table[u] EXCEPT !.is_department_head = FALSE]
        ELSE table[u]]

\* A bulk update that clears no flag.
ClearHeads_Nobody(table, dept_id) == table

\* db.query(User).filter(User.department == dept_id)
\*   .update({"is_department_head": False})
ClearHeads(table, dept_id) ==
    [u \in DOMAIN table |->
        IF table[u].department = Some(dept_id)
        THEN [table[u] EXCEPT !.is_department_head = FALSE]
        ELSE table[u]]

set_department_head(department_id, user_id) ==
    LET dept_id == Upper(department_id)
        req == [department_id |-> department_id]
        refused == MemberCheck(dept_id, user_id)
    IN IF refused # OK
       THEN /\ last' = Answer("set_department_head", Some(user_id), req, refused)
            /\ UNCHANGED <<users, queries, uploads, now, admin_users, sessions>>
       ELSE /\ users' = [ClearHeads(users, dept_id) EXCEPT
                            ![user_id].is_department_head = TRUE]
            /\ last' = Answer("set_department_head", Some(user_id), req, OK)
            /\ UNCHANGED <<queries, uploads, now, admin_users, sessions>>

\* setattr(user, field, value) for one field of a UserUpdate body.  The
\* body is a record of the fields the request sets; the columns that are
\* Optional in the model take the value as it is (None is a null), the
\* others take the value itself.
SetAttr(user, field, value) ==
    IF field \in {"department", "phone", "position"}
    THEN [user EXCEPT ![field] =
            IF field = "department" /\ Truthy(value) THEN Some(Upper(value[1])) ELSE value]
    ELSE [user EXCEPT ![field] = value[1]]

\* The loop over update_data, one field after the other.
RECURSIVE SetAll(_, _, _)
SetAll(user, body, fields) ==
    IF fields = {} THEN user
    ELSE LET f == CHOOSE x \in fields : TRUE
         IN SetAll(SetAttr(user, f, body[f]), body, fields \ {f})

update_department_member(department_id, user_id, user_update) ==
    LET dept_id == Upper(department_id)
        req == [department_id |-> department_id, data |-> user_update]
        refused == MemberCheck(dept_id, user_id)
    IN IF refused # OK
       THEN /\ last' = Answer("update_department_member", Some(user_id), req, refused)
            /\ UNCHANGED <<users, queries, uploads, now, admin_users, sessions>>
       ELSE /\ users' = [users EXCEPT
                            ![user_id] = SetAll(@, user_update, DOMAIN user_update)]
            /\ last' = Answer("update_department_member", Some(user_id), req, OK)
            /\ UNCHANGED <<queries, uploads, now, admin_users, sessions>>

\* A removal that deletes the row.
remove_department_member_Hard(department_id, user_id) ==
    LET dept_id == Upper(department_id)
        req == [department_id |-> department_id]
        refused == MemberCheck(dept_id, user_id)
    IN IF refused # OK
       THEN /\ last' = Answer("remove_department_member", Some(user_id), req, refused)
            /\ UNCHANGED <<users, queries, uploads, now, admin_users, sessions>>
       ELSE /\ users' = Without(users, user_id)
            /\ last' = Answer("remove_department_member", Some(user_id), req, OK)
            /\ UNCHANGED <<queries, uploads, now, admin_users, sessions>>

remove_department_member(department_id, user_id) ==
    LET dept_id == Upper(department_id)
        req == [department_id |-> department_id]
        refused == MemberCheck(dept_id, user_id)
    IN IF refused # OK
       THEN /\ last' = Answer("remove_department_member", Some(user_id), req, refused)
            /\ UNCHANGED <<users, queries, uploads, now, admin_users, sessions>>
       ELSE /\ users' = [users EXCEPT ![user_id].is_active = FALSE]
            /\ last' = Answer("remove_department_member", Some(user_id), req, OK)
            /\ UNCHANGED <<queries, uploads, now, admin_users, sessions>>

(* The team-member handlers: the same users table, addressed by id. *)

create_team_member(member) ==
    IF EmailTaken(member.email)
    THEN /\ last' = Answer("create_team_member", None, member, ValidationError)
         /\ UNCHANGED <<users, queries, uploads, now, admin_users, sessions>>
    ELSE
      LET id == NewId(users)
          department == IF Truthy(member.department)
                        THEN Upper(member.department[1]) ELSE "ADMINISTRATION"
      IN /\ users' = With(users, id,
                          User(member.name, member.email, "defaultpassword123",
                               member.role, Some(department), None, None, member.status))
         /\ last' = Answer("create_team_member", Some(id), member, OK)
         /\ UNCHANGED <<queries, uploads, now, admin_users, sessions>>

update_team_member(member_id, member) ==
    IF member_id \notin DOMAIN users
    THEN /\ last' = Answer("update_team_member", Some(member_id), member, NotFound)
         /\ UNCHANGED <<users, queries, uploads, now, admin_users, sessions>>
    ELSE IF \E u \in DOMAIN users \ {member_id} : users[u].email = member.email
    THEN /\ last' = Answer("update_team_member", Some(member_id), member, ValidationError)
         /\ UNCHANGED <<users, queries, uploads, now, admin_users, sessions>>
    ELSE /\ users' = [users EXCEPT
                        ![member_id].full_name = member.name,
                        ![member_id].email = member.email,
                        ![member_id].role = member.role,
                        ![member_id].status = member.status,
                        ![member_id].department =
                            IF Truthy(member.department)
                            THEN Some(Upper(member.department[1])) ELSE @]
         /\ last' = Answer("update_team_member", Some(member_id), member, OK)
         /\ UNCHANGED <<queries, uploads, now, admin_users, sessions>>

\* No user is taken to own a query.
OwnsQueries_Nobody(member_id) == FALSE

\* The rows db.delete(db_member) finds through User.queries are not empty.
OwnsQueries(member_id) == \E q \in DOMAIN queries : queries[q].user_id = member_id

\* db.delete(db_member) first sets user_id to NULL in the queries the user
\* owns (the relationship has no delete cascade); that column is NOT NULL,
\* so the commit fails and the handler rolls back and answers 500.
delete_team_member(member_id) ==
    IF member_id \notin DOMAIN users
    THEN /\ last' = Answer("delete_team_member", Some(member_id), None, NotFound)
         /\ UNCHANGED <<users, queries, uploads, now, admin_users, sessions>>
    ELSE IF OwnsQueries(member_id)
    THEN /\ last' = Answer("delete_team_member", Some(member_id), None, InternalError)
         /\ UNCHANGED <<users, queries, uploads, now, admin_users, sessions>>
    ELSE /\ users' = Without(users, member_id)
         /\ last' = Answer("delete_team_member", Some(member_id), None, OK)
         /\ UNCHANGED <<queries, uploads, now, admin_users, sessions>>

-----------------------------------------------------------------------------
(* Requests, and the limits the bounds put on them.                        *)

\* The requests that can be in progress at once: one per worker process
\* on the same database.
Workers == {"w1", "w2"}

\* A worker between requests.
Idle == [pc |-> "idle"]

Init ==
    /\ users = <<>>
    /\ queries = <<>>
    /\ uploads = {}
    /\ admin_users = <<>>
    /\ sessions = [w \in Workers |-> Idle]
    /\ now = 1
    /\ last = [op |-> "start", id |-> None, req |-> None, result |-> OK, before |-> None]

Student(name, email) ==
    [full_name |-> name, email |-> email, password |-> "pw", confirm_password |-> "pw",
     role |-> Some("student"), department |-> None, phone |-> None, position |-> None]

\* The user ids the requests name: a registered one and an unknown one.
UserIds == 1 .. 2

Blank ==
    [category |-> SchemaEnum("QueryCategory", "IT"), subject |-> "   ",
     description |-> "No toner  ", priority |-> None, contact_info |-> None,
     attachment_filename |-> None, attachment_data |-> None]

NoUpdate ==
    [status |-> None, category |-> None, assigned_to |-> None,
     assigned_member_id |-> None, assigned_user |-> None, admin_response |-> None,
     resolution_notes |-> None]

Statuses == {Some(SchemaEnum("QueryStatus", n)) : n \in QueryStatusNames}

Categories == {Some(SchemaEnum("QueryCategory", n)) : n \in QueryCategoryNames}

Priorities == {Some(SchemaEnum("QueryPriority", n)) : n \in QueryPriorityNames}

\* The queries table has room for one more row, of max.
RoomForQuery(max) == Cardinality(DOMAIN queries) < max

\* The notes the update would store stay within the bound.
NotesFit(id, r) ==
    id \in DOMAIN queries =>
        LET n == Updated(queries[id], r).resolution_notes
        IN IF n = None THEN TRUE ELSE Len(n[1]) <= MaxNotesLen

\* Sign-ups of one student: the second one finds the email registered.
Register == \E d \in {Student("Ann", "ann@example.com")} : signup(d)

-----------------------------------------------------------------------------
(* The store: queries are created, changed, read and deleted.              *)

\* A request body with a key the schema does not declare.
WithStatus(raw, n) ==
    [k \in DOMAIN raw \cup {"status"} |->
        IF k = "status" THEN Some(SchemaEnum("QueryStatus", n)) ELSE raw[k]]

CreateInputs ==
    {[Blank EXCEPT !.subject = " Printer broken "],
     [Blank EXCEPT !.subject = " Printer broken ",
                   !.category = SchemaEnum("QueryCategory", "WARDEN"),
                   !.priority = Some(SchemaEnum("QueryPriority", "HIGH"))],
     WithStatus([Blank EXCEPT !.subject = " Printer broken "], "RESOLVED"),
     Blank}

Png == [filename |-> "photo.png", content_type |-> "image/png", size |-> 2048]

\* The upload directory has room for one more file.
RoomForUpload == Cardinality(uploads) < MaxUploads

StoreUpdates ==
    {[NoUpdate EXCEPT !.status = Some(SchemaEnum("QueryStatus", "IN_PROGRESS"))]}

Next ==
    \/ Register
    \/ \E d \in CreateInputs, u \in UserIds :
          RoomForQuery(MaxQueries) /\ create_query(d, u, TRUE)
    \/ \E id \in 1 .. MaxQueries + 1, r \in StoreUpdates, ok \in BOOLEAN :
          update_query(id, r, ok)
    \/ \E id \in 1 .. MaxQueries + 1 : get_query_by_id(id)
    \/ \E id \in 1 .. MaxQueries + 1 : delete_query(id)
    \/ \E id \in 1 .. MaxQueries + 1 :
          (id \in DOMAIN queries => RoomForUpload) /\ upload_attachment(id, Png, TRUE)

Spec == Init /\ [][Next]_vars

\* Every row of table t other than row id is the same in t and in u.
OthersSame(t, u, id) ==
    /\ DOMAIN u \ {id} = DOMAIN t \ {id}
    /\ \A k \in DOMAIN t \ {id} : u[k] = t[k]

\* C4: every successful create_query stores exactly one new record, with
\* status PENDING and resolved_at null, owned by the supplied user_id, with
\* the requested category and the requested priority (MEDIUM when the
\* request gives none), whatever status the request body tries to give it.
C4_CreateStoresPending ==
    [][(last'.op = "create_query" /\ last'.result = OK) =>
         \E id \in DOMAIN queries' \ DOMAIN queries :
            LET q == queries'[id]
                d == last'.req.data
            IN /\ last'.id = Some(id)
               /\ OthersSame(queries, queries', id)
               /\ q.status = ModelEnum("QueryStatus", "PENDING")
               /\ q.resolved_at = None
               /\ q.user_id = last'.req.user_id
               /\ q.category = ModelEnum("QueryCategory", d.category.name)
               /\ q.priority = ModelEnum("QueryPriority",
                                  IF d.priority = None THEN "MEDIUM"
                                  ELSE d.priority[1].name)]_vars

\* C4 happens: a create that names no priority succeeds beside an older
\* query, and one whose body carries a status succeeds too.
C4_Witness ==
    /\ last.op = "create_query" /\ last.result = OK
    /\ Cardinality(DOMAIN queries) = 2
    /\ \/ last.req.data.priority = None
       \/ "status" \in DOMAIN last.req.data

\* C9: delete_query on an id that is not stored fails with NotFound and
\* changes no query; on a stored id it removes that record and no other;
\* and a get, update, delete or upload on an id that is not stored is
\* answered NotFound.
C9_DeleteRemovesExactlyOne ==
    [][/\ (last'.op = "delete_query" /\ last'.id[1] \notin DOMAIN queries) =>
            (last'.result = NotFound /\ queries' = queries)
       /\ (last'.op = "delete_query" /\ last'.id[1] \in DOMAIN queries) =>
            /\ last'.result = OK
            /\ last'.id[1] \notin DOMAIN queries'
            /\ DOMAIN queries' = DOMAIN queries \ {last'.id[1]}
            /\ \A k \in DOMAIN queries' : queries'[k] = queries[k]
       /\ (/\ last'.op \in {"get_query_by_id", "update_query", "delete_query",
                            "upload_attachment"}
           /\ last'.id[1] \notin DOMAIN queries) =>
            (last'.result = NotFound /\ queries' = queries)]_vars

\* C9 happens: a stored query was deleted while another one stays, and the
\* next request on the deleted id is refused.
C9_Witness ==
    \/ /\ last.op = "delete_query" /\ last.result = OK
       /\ DOMAIN queries # {} /\ last.id[1] \notin DOMAIN queries
    \/ /\ last.op \in {"get_query_by_id", "update_query", "upload_attachment"}
       /\ last.result = NotFound /\ DOMAIN queries # {}
       /\ last.id[1] < Max(DOMAIN queries)

-----------------------------------------------------------------------------
(* One query and its updates.                                              *)

\* The request body of the example: a valid create.
PrinterBroken == [Blank EXCEPT !.subject = " Printer broken "]

Open(inputs) ==
    \E d \in inputs, u \in UserIds : RoomForQuery(MaxOpen) /\ create_query(d, u, TRUE)

Change(inputs) ==
    \E id \in 1 .. MaxOpen, r \in inputs, ok \in BOOLEAN :
        NotesFit(id, r) /\ update_query(id, r, ok)

\* The query the latest request addressed, as it is stored now.
Current == queries[last.id[1]]

\* The latest request was an update that was committed.
UpdateDone == last.op = "update_query" /\ last.result = OK

\* The latest request was an update that asked for status n.
Asked(n) == last.req.status = Some(SchemaEnum("QueryStatus", n))

(* Status changes and the resolved_at stamp. *)

ResolveUpdates ==
    {[NoUpdate EXCEPT !.status = st] : st \in Statuses}
    \cup {[NoUpdate EXCEPT !.admin_response = Some("T")],
          [NoUpdate EXCEPT !.assigned_to = Some("IT")],
          [NoUpdate EXCEPT !.status = Some(SchemaEnum("QueryStatus", "RESOLVED")),
                           !.admin_response = Some("T")]}

NextResolve ==
    \/ Register
    \/ Open({PrinterBroken})
    \/ Change(ResolveUpdates)
    \/ Tick

SpecResolve == Init /\ [][NextResolve]_vars

\* C1: resolved_at is assigned at most once: an update that asks for status
\* RESOLVED while resolved_at is null sets it (to the time of the update),
\* and every other update leaves resolved_at as it was.
C1_ResolvedAtSetOnce ==
    UpdateDone =>
        IF Asked("RESOLVED") /\ last.before[1].resolved_at = None
        THEN Current.resolved_at = Some(now)
        ELSE Current.resolved_at = last.before[1].resolved_at

(* Transfers between departments. *)

RouteUpdates ==
    {[NoUpdate EXCEPT !.category = c, !.assigned_to = d] :
        c \in {None, Some(SchemaEnum("QueryCategory", "MAINTENANCE"))},
        d \in {None, Some("it"), Some("WARDEN"), Some("bob"), Some("")}}

NextRoute ==
    \/ Register
    \/ Open({PrinterBroken,
             [PrinterBroken EXCEPT !.category = SchemaEnum("QueryCategory", "RECTOR")]})
    \/ Change(RouteUpdates)
    \/ \E id \in 1 .. MaxOpen : RoomForUpload /\ upload_attachment(id, Png, TRUE)

SpecRoute == Init /\ [][NextRoute]_vars

\* The department a text names, in any letter case, if it names one.
DepartmentNamed(text) ==
    CASE text \in {"IT", "it", "It"} -> Some("IT")
      [] text \in {"MAINTENANCE", "maintenance"} -> Some("MAINTENANCE")
      [] text \in {"RECTOR"} -> Some("RECTOR")
      [] text \in {"WARDEN", "warden"} -> Some("WARDEN")
      [] text \in {"ADMINISTRATION"} -> Some("ADMINISTRATION")
      [] OTHER -> None

\* C2: after a successful update_query whose assigned_to names a department
\* X, in any letter case, the query's category is X, whatever it was before
\* and whatever category the same request supplies.
C2_AssignForcesCategory ==
    (UpdateDone /\ last.req.assigned_to # None
                /\ DepartmentNamed(last.req.assigned_to[1]) # None) =>
        Current.category =
            ModelEnum("QueryCategory", DepartmentNamed(last.req.assigned_to[1])[1])

\* C2 happens: a RECTOR query is sent to "it" by a request that also asks
\* for category MAINTENANCE.
C2_Witness ==
    /\ UpdateDone
    /\ last.req.assigned_to = Some("it")
    /\ last.req.category = Some(SchemaEnum("QueryCategory", "MAINTENANCE"))
    /\ last.before[1].category = ModelEnum("QueryCategory", "RECTOR")

\* C3: in every state, a query whose assigned_to names a department has that
\* department as its category.
C3_CategoryFollowsAssignment ==
    \A id \in DOMAIN queries :
        (queries[id].assigned_to # None
            /\ DepartmentNamed(queries[id].assigned_to[1]) # None) =>
        queries[id].category =
            ModelEnum("QueryCategory", DepartmentNamed(queries[id].assigned_to[1])[1])

(* The resolution notes. *)

NotesUpdates ==
    {[NoUpdate EXCEPT !.admin_response = a, !.resolution_notes = n] :
        a \in {None, Some(""), Some("T")},
        n \in {None, Some(""), Some("N")}}

NextNotes ==
    \/ Register
    \/ Open({PrinterBroken})
    \/ Change(NotesUpdates)

SpecNotes == Init /\ [][NextNotes]_vars

\* The text of a notes column: a null column holds no text.
Text(notes) == IF notes = None THEN "" ELSE notes[1]

\* C7: resolution_notes is append-only: for every successful update_query
\* the notes before the update are a prefix of the notes after it.
C7_NotesAppendOnly ==
    UpdateDone =>
        IsPrefix(Text(last.before[1].resolution_notes), Text(Current.resolution_notes))

\* C8: given a non-empty admin_response T, the new notes are the old notes
\* followed by "\n\nAdmin Response: T" when the old notes were non-empty, and
\* "Admin Response: T" when they were null or empty; an update with neither
\* admin_response nor resolution_notes leaves the notes as they were.
C8_AdminResponseAppended ==
    UpdateDone =>
        LET old == last.before[1].resolution_notes
            new == Current.resolution_notes
            T == last.req.admin_response
        IN /\ (T # None /\ T[1] # "") =>
                 IF Text(old) # ""
                 THEN new = Some(old[1] \o "\n\nAdmin Response: " \o T[1])
                 ELSE new = Some("Admin Response: " \o T[1])
           /\ (T = None /\ last.req.resolution_notes = None) => new = old

-----------------------------------------------------------------------------
(* The directory: members join departments, are changed, removed, and made *)
(* head.                                                                   *)

Member(name, email) == [Student(name, email) EXCEPT !.role = None]

People == {Member("Ann", "ann@example.com"), Member("Bob", "bob@example.com")}

DepartmentInputs == {"it", "WARDEN", "physics"}

\* The ids the requests name: the rows there can be, and one more.
MemberIds == 1 .. Cardinality(People) + 1

MemberUpdates ==
    {[is_department_head |-> Some(TRUE)],
     [department |-> Some("warden")],
     [is_active |-> Some(TRUE), phone |-> None]}

TeamInputs ==
    {[name |-> "Bob", email |-> "bob@example.com", role |-> "staff",
      status |-> "Active", department |-> d] : d \in {Some("it"), None}}

NextDept ==
    \/ \E d \in {[Member("Ann", "ann@example.com") EXCEPT !.role = Some("it")]} : signup(d)
    \/ \E dep \in DepartmentInputs, d \in People : add_department_member(dep, d)
    \/ \E dep \in DepartmentInputs, u \in MemberIds : set_department_head(dep, u)
    \/ \E dep \in DepartmentInputs, u \in MemberIds, d \in MemberUpdates :
          update_department_member(dep, u, d)
    \/ \E dep \in DepartmentInputs, u \in MemberIds : remove_department_member(dep, u)
    \/ \E m \in TeamInputs : create_team_member(m)
    \/ \E u \in MemberIds, m \in TeamInputs : update_team_member(u, m)
    \/ \E u \in MemberIds : delete_team_member(u)

SpecDept == Init /\ [][NextDept]_vars

\* The active heads of department d.
ActiveHeads(d) ==
    {u \in DOMAIN users : /\ users[u].department = Some(d)
                          /\ users[u].is_active
                          /\ users[u].is_department_head}

\* C5: in every state, each department has at most one active user with
\* is_department_head = true.
C5_AtMostOneActiveHead ==
    \A d \in DEPARTMENT_CONFIG : Cardinality(ActiveHeads(d)) <= 1

\* C6: a set_department_head(D, u) succeeds exactly when D is a department,
\* u is a user and u belongs to D.  After a success u is flagged as head,
\* every other user of D, active or not, is not, and the flags of the users
\* of other departments are as before; after a failure no user has changed.
C6_SetHeadClearsOthers ==
    [][last'.op = "set_department_head" =>
         LET D == DepartmentNamed(last'.req.department_id)
             u == last'.id[1]
             valid == /\ D # None
                      /\ u \in DOMAIN users
                      /\ users[u].department = D
         IN /\ last'.result = OK <=> valid
            /\ DOMAIN users' = DOMAIN users
            /\ IF valid
               THEN \A v \in DOMAIN users :
                       users'[v].is_department_head =
                          IF v = u THEN TRUE
                          ELSE IF users[v].department = D THEN FALSE
                          ELSE users[v].is_department_head
               ELSE users' = users]_vars

\* C6 happens: a department whose head had been removed (and so is inactive)
\* has got a new head, and the removed one has lost the flag.
C6_Witness ==
    /\ last.op = "set_department_head" /\ last.result = OK
    /\ users[last.id[1]].is_department_head
    /\ \E v \in last.before[1] :
          /\ v # last.id[1]
          /\ v \in DOMAIN users
          /\ users[v].department = users[last.id[1]].department
          /\ ~users[v].is_active
          /\ ~users[v].is_department_head

-----------------------------------------------------------------------------
(* Listing: GET /queries/ with filters and pagination.                     *)

MaxListed == 3

\* The rows the filters of a listing keep.  `if user_id:` and the like test
\* truthiness: an absent filter and a user_id of 0 both keep every row, an
\* enum member is always truthy.
Filtered(user_id, category, status, priority) ==
    {q \in DOMAIN queries :
        /\ (user_id # None /\ user_id[1] # 0) => queries[q].user_id = user_id[1]
        /\ category # None => queries[q].category = category[1]
        /\ status # None => queries[q].status = status[1]
        /\ priority # None => queries[q].priority = priority[1]}

\* The rows ordered with the oldest first.
Ordered_Ascending(rows) ==
    {s \in [1 .. Cardinality(rows) -> rows] :
        /\ \A i, j \in DOMAIN s : i < j =>
              /\ s[i] # s[j]
              /\ queries[s[i]].created_at <= queries[s[j]].created_at}

\* order_by(desc(Query.created_at)): the orders of the rows with the most
\* recent first; rows created at the same time come in any order.
Ordered(rows) ==
    {s \in [1 .. Cardinality(rows) -> rows] :
        /\ \A i, j \in DOMAIN s : i < j =>
              /\ s[i] # s[j]
              /\ queries[s[i]].created_at >= queries[s[j]].created_at}

\* .offset(skip).limit(per_page)
OffsetLimit(s, skip, per_page) ==
    SubSeq(s, skip + 1, IF skip + per_page < Len(s) THEN skip + per_page ELSE Len(s))

\* total_pages computed by rounding down.
TotalPages_Floor(total, per_page) == total \div per_page

\* (total + per_page - 1) // per_page
TotalPages(total, per_page) == (total + per_page - 1) \div per_page

\* The listing answered just before this request, if the latest request was
\* one: what was asked and the records that came back.
Earlier ==
    IF last.op = "get_queries" /\ last.result = OK
    THEN Some([req |-> last.req, queries |-> last.response.queries])
    ELSE None

get_queries(page, per_page, user_id, category, status, priority) ==
    LET req == [page |-> page, per_page |-> per_page, user_id |-> user_id,
                category |-> category, status |-> status, priority |-> priority]
    IN IF page < 1 \/ per_page < 1 \/ per_page > 100
       THEN /\ last' = [op |-> "get_queries", id |-> None, req |-> req,
                        result |-> ValidationError, before |-> None]
            /\ UNCHANGED <<users, queries, uploads, now, admin_users, sessions>>
       ELSE LET rows == Filtered(user_id, category, status, priority)
                total == Cardinality(rows)
                skip == (page - 1) * per_page
            IN /\ \E s \in Ordered(rows) :
                    last' = [op |-> "get_queries", id |-> None, req |-> req,
                             result |-> OK, before |-> Earlier,
                             response |->
                                [queries |-> OffsetLimit(s, skip, per_page),
                                 total |-> total, page |-> page,
                                 per_page |-> per_page,
                                 total_pages |-> TotalPages(total, per_page)]]
               /\ UNCHANGED <<users, queries, uploads, now, admin_users, sessions>>

\* The filters the listings ask for.
NoFilter == [user_id |-> None, category |-> None, status |-> None, priority |-> None]

Filters ==
    {NoFilter,
     [NoFilter EXCEPT !.user_id = Some(0)],
     [NoFilter EXCEPT !.user_id = Some(1)],
     [NoFilter EXCEPT !.user_id = Some(2)],
     [NoFilter EXCEPT !.category = Some(ModelEnum("QueryCategory", "IT"))],
     [NoFilter EXCEPT !.status = Some(ModelEnum("QueryStatus", "IN_PROGRESS"))],
     [NoFilter EXCEPT !.category = Some(ModelEnum("QueryCategory", "WARDEN")),
                      !.priority = Some(ModelEnum("QueryPriority", "HIGH"))]}

\* The pages asked for: the pages within the limits, with every filter,
\* and the ones the limits refuse.
Listings ==
    {[page |-> p, per_page |-> n, filter |-> f] : p \in 1 .. 3, n \in 1 .. 2, f \in Filters}
    \cup {[page |-> 1, per_page |-> 100, filter |-> NoFilter],
          [page |-> 0, per_page |-> 1, filter |-> NoFilter],
          [page |-> 1, per_page |-> 0, filter |-> NoFilter],
          [page |-> 1, per_page |-> 101, filter |-> NoFilter]}

ListedInputs ==
    {PrinterBroken,
     [PrinterBroken EXCEPT !.category = SchemaEnum("QueryCategory", "WARDEN"),
                           !.priority = Some(SchemaEnum("QueryPriority", "HIGH"))]}

\* A listing leaves the store as it is, so a listing answers the same
\* wherever it comes among other listings.  The listings here follow the
\* requests that write, and a first page may be followed by the second page
\* of the same listing.
SecondPage(l) ==
    /\ last.op = "get_queries" /\ last.result = OK /\ last.before = None
    /\ last.req.page = 1 /\ l.page = 2
    /\ l.per_page = last.req.per_page
    /\ l.filter = [f \in DOMAIN NoFilter |-> last.req[f]]

NextPage ==
    \/ Register
    \/ \E d \in ListedInputs : RoomForQuery(MaxListed) /\ create_query(d, 1, TRUE)
    \/ Tick
    \/ \E l \in Listings :
          /\ IF last.op = "get_queries" THEN SecondPage(l) ELSE TRUE
          /\ get_queries(l.page, l.per_page, l.filter.user_id, l.filter.category,
                         l.filter.status, l.filter.priority)

SpecPage == Init /\ [][NextPage]_vars

\* A listing that was answered.
Listed == last.op = "get_queries" /\ last.result = OK

\* The rows that have the values the request names.
Matching(req) ==
    {q \in DOMAIN queries :
        /\ req.user_id # None => queries[q].user_id = req.user_id[1]
        /\ req.category # None => queries[q].category.name = req.category[1].name
        /\ req.status # None => queries[q].status.name = req.status[1].name
        /\ req.priority # None => queries[q].priority.name = req.priority[1].name}

\* The least n with n * per_page >= total.
Ceil(total, per_page) ==
    CHOOSE n \in 0 .. total : n * per_page >= total /\ \A m \in 0 .. n - 1 : m * per_page < total

\* What a listing owes apart from its total: at most per_page records,
\* total_pages = ceil(total / per_page), nothing on a page beyond the last.
PageShape ==
    LET resp == last.response
    IN /\ Len(resp.queries) <= last.req.per_page
       /\ resp.total_pages = Ceil(resp.total, last.req.per_page)
       /\ last.req.page > resp.total_pages => resp.queries = <<>>

Descending(rows) ==
    {s \in [1 .. Cardinality(rows) -> rows] :
        /\ \A i, j \in DOMAIN s : i # j => s[i] # s[j]
        /\ \A i \in DOMAIN s : \A j \in DOMAIN s :
              i < j => queries[s[j]].created_at <= queries[s[i]].created_at}

\* The part [(page-1)*per_page, page*per_page) of s, counting from 0.
Slice(s, page, per_page) ==
    LET from == (page - 1) * per_page
        n == IF Len(s) <= from THEN 0
             ELSE IF Len(s) - from < per_page THEN Len(s) - from ELSE per_page
    IN [i \in 1 .. n |-> s[from + i]]

Range(s) == {s[i] : i \in DOMAIN s}

\* The request without a user_id of 0.
Applied(req) == IF req.user_id = Some(0) THEN [req EXCEPT !.user_id = None] ELSE req

-----------------------------------------------------------------------------
(* Statistics: GET /queries/stats/overview.                                *)

\* A count that compares the column with the member of the schema class.
CountWhere_Schema(field, enum, name) ==
    Cardinality({q \in DOMAIN queries : queries[q][field] = SchemaEnum(enum, name)})

\* db.query(Query).filter(Query.<field> == <member>).count(), the member
\* being one of the classes of models.query.
CountWhere(field, enum, name) ==
    Cardinality({q \in DOMAIN queries : queries[q][field] = ModelEnum(enum, name)})

get_query_stats ==
    /\ last' = [op |-> "get_query_stats", id |-> None, req |-> None, result |-> OK,
                before |-> None,
                response |->
                   [total_queries |-> Cardinality(DOMAIN queries),
                    pending_queries |-> CountWhere("status", "QueryStatus", "PENDING"),
                    in_progress_queries |-> CountWhere("status", "QueryStatus", "IN_PROGRESS"),
                    resolved_queries |-> CountWhere("status", "QueryStatus", "RESOLVED"),
                    closed_queries |-> CountWhere("status", "QueryStatus", "CLOSED"),
                    by_category |-> [c \in QueryCategoryNames |->
                                        CountWhere("category", "QueryCategory", c)],
                    by_priority |-> [p \in QueryPriorityNames |->
                                        CountWhere("priority", "QueryPriority", p)]]]
    /\ UNCHANGED <<users, queries, uploads, now, admin_users, sessions>>

StatsUpdates ==
    {[NoUpdate EXCEPT !.status = st] : st \in Statuses}
    \cup {[NoUpdate EXCEPT !.assigned_to = Some("maintenance")]}

NextStats ==
    \/ Register
    \/ \E d \in ListedInputs : RoomForQuery(MaxQueries) /\ create_query(d, 1, TRUE)
    \/ \E id \in 1 .. MaxQueries, r \in StatsUpdates : update_query(id, r, TRUE)
    \/ \E id \in 1 .. MaxQueries : delete_query(id)
    \/ get_query_stats

SpecStats == Init /\ [][NextStats]_vars

RECURSIVE Sum(_)
Sum(f) ==
    IF DOMAIN f = {} THEN 0
    ELSE LET k == CHOOSE x \in DOMAIN f : TRUE
         IN f[k] + Sum([x \in DOMAIN f \ {k} |-> f[x]])

\* C12: the statistics always have pending + in_progress + resolved + closed
\* = total_queries, a key in by_category for each of the five categories and
\* in by_priority for each of the three priorities, zero counts included,
\* and the counts of either table sum to total_queries, which is the number
\* of stored queries.
C12_StatsAddUp ==
    last.op = "get_query_stats" =>
        LET r == last.response
        IN /\ last.result = OK
           /\ r.total_queries = Cardinality(DOMAIN queries)
           /\ r.pending_queries + r.in_progress_queries
                 + r.resolved_queries + r.closed_queries = r.total_queries
           /\ DOMAIN r.by_category =
                 {"IT", "MAINTENANCE", "RECTOR", "WARDEN", "ADMINISTRATION"}
           /\ DOMAIN r.by_priority = {"LOW", "MEDIUM", "HIGH"}
           /\ Sum(r.by_category) = r.total_queries
           /\ Sum(r.by_priority) = r.total_queries

\* C12 happens: statistics of two queries of different status, category and
\* priority, with categories and a priority that no query has.
C12_Witness ==
    /\ last.op = "get_query_stats"
    /\ last.response.total_queries = 2
    /\ last.response.resolved_queries = 1 /\ last.response.closed_queries = 1
    /\ last.response.by_category["MAINTENANCE"] = 1
    /\ last.response.by_category["WARDEN"] = 1
    /\ last.response.by_category["RECTOR"] = 0
    /\ last.response.by_priority["LOW"] = 0

-----------------------------------------------------------------------------
(* Accounts: sign-ups with good and bad bodies, among team members that    *)
(* come and go.                                                            *)

SignupInputs ==
    {Student("Ann", "ann@example.com"),
     [Student("Ann", "ann@example.com") EXCEPT !.confirm_password = "pv"],
     [Student("Bob", "bob@example.com") EXCEPT !.role = Some("it")],
     [Student("Bob", "bob@example.com") EXCEPT !.confirm_password = "pv",
                                               !.role = None]}

NextSignup ==
    \/ \E d \in SignupInputs : signup(d)
    \/ \E m \in TeamInputs : create_team_member(m)
    \/ \E u \in 1 .. 3 : delete_team_member(u)

SpecSignup == Init /\ [][NextSignup]_vars

\* C13: a signup whose password differs from confirm_password fails with
\* ValidationError, and so does one whose email is already registered; in
\* both cases the stored users are unchanged, and when both hold the error
\* reported is the password mismatch.  Any other signup succeeds.
C13_SignupRejects ==
    [][last'.op = "signup" =>
         LET d == last'.req
             mismatch == d.password # d.confirm_password
             registered == \E u \in DOMAIN users : users[u].email = d.email
         IN /\ mismatch =>
                 /\ last'.result = ValidationError
                 /\ last'.detail = "Passwords do not match"
                 /\ users' = users
            /\ (registered /\ ~mismatch) =>
                 /\ last'.result = ValidationError
                 /\ last'.detail = "Email already registered"
                 /\ users' = users
            /\ (~registered /\ ~mismatch) =>
                 /\ last'.result = OK
                 /\ Cardinality(DOMAIN users') = Cardinality(DOMAIN users) + 1]_vars

\* C13 happens: a signup with a registered email and passwords that differ
\* was refused for the passwords.
C13_Witness ==
    /\ last.op = "signup" /\ last.result = ValidationError
    /\ last.req.password # last.req.confirm_password
    /\ \E u \in DOMAIN users : users[u].email = last.req.email
    /\ last.detail = "Passwords do not match"

-----------------------------------------------------------------------------
(* Admin users: the admin_users table and its handlers.  The schemas use   *)
(* the enum classes of models.admin_user themselves.                       *)

AdminEnum(e, n) == [module |-> "models.admin_user", enum |-> e, name |-> n]

MAIN_ADMIN == AdminEnum("AdminRole", "MAIN_ADMIN")

DEPARTMENT_ADMIN == AdminEnum("AdminRole", "DEPARTMENT_ADMIN")

ACTIVE == AdminEnum("AdminStatus", "ACTIVE")

DepartmentTypeNames == {"IT", "MAINTENANCE", "RECTOR", "WARDEN", "ADMINISTRATION"}

\* bcrypt.hashpw; the salt is left out.
admin_hash_password(password) == "bcrypt:" \o password

\* The columns of admin_users that are NOT NULL hold a value.
AdminRowFits(a) == a.name # None /\ a.email # None /\ a.role # None /\ a.password_hash # None

AdminEmailTaken(email, except) ==
    \E a \in DOMAIN admin_users \ except : admin_users[a].email = Some(email)

AdminAnswer(op, id, req, result) ==
    [op |-> op, id |-> id, req |-> req, result |-> result, before |-> None]

\* A check that lets every pairing pass.
MissingDepartment_Never(role, department) == FALSE

\* role == AdminRole.DEPARTMENT_ADMIN and not department
MissingDepartment(role, department) == role = Some(DEPARTMENT_ADMIN) /\ department = None

create_admin_user(user_data) ==
    IF AdminEmailTaken(user_data.email, {})
       \/ MissingDepartment(Some(user_data.role), user_data.department)
    THEN /\ last' = AdminAnswer("create_admin_user", None, user_data, ValidationError)
         /\ UNCHANGED <<users, queries, uploads, admin_users, now, sessions>>
    ELSE
      LET id == NewId(admin_users)
          department == IF user_data.role = MAIN_ADMIN THEN None ELSE user_data.department
      IN /\ admin_users' =
               With(admin_users, id,
                    [name          |-> Some(user_data.name),
                     email         |-> Some(user_data.email),
                     password_hash |-> Some(admin_hash_password(user_data.password)),
                     role          |-> Some(user_data.role),
                     department    |-> department,
                     phone         |-> user_data.phone,
                     status        |-> Some(user_data.status),
                     last_login    |-> None,
                     created_at    |-> now,
                     updated_at    |-> now])
         /\ last' = AdminAnswer("create_admin_user", Some(id), user_data, OK)
         /\ UNCHANGED <<users, queries, uploads, now, sessions>>

\* One turn of the loop over the fields the request sets: a password that
\* is not empty is hashed, an empty or null one is skipped, and any other
\* field is assigned as it is, null included.
AdminSetAttr(a, field, value) ==
    IF field = "password"
    THEN IF Truthy(value)
         THEN [a EXCEPT !.password_hash = Some(admin_hash_password(value[1]))]
         ELSE a
    ELSE [a EXCEPT ![field] = value]

RECURSIVE AdminSetAll(_, _, _)
AdminSetAll(a, body, fields) ==
    IF fields = {} THEN a
    ELSE LET f == CHOOSE x \in fields : TRUE
         IN AdminSetAll(AdminSetAttr(a, f, body[f]), body, fields \ {f})

update_admin_user(user_id, user_data) ==
    IF user_id \notin DOMAIN admin_users
    THEN /\ last' = AdminAnswer("update_admin_user", Some(user_id), user_data, NotFound)
         /\ UNCHANGED <<users, queries, uploads, admin_users, now, sessions>>
    ELSE
      LET email == Get(user_data, "email")
          set == AdminSetAll(admin_users[user_id], user_data, DOMAIN user_data)
          forced == [set EXCEPT
                        !.department = IF set.role = Some(MAIN_ADMIN) THEN None ELSE @]
          \* onupdate=func.now() applies when the row is written
          stored == IF forced = admin_users[user_id] THEN forced
                    ELSE [forced EXCEPT !.updated_at = now]
          refused ==
              IF /\ Truthy(email)
                 /\ email # admin_users[user_id].email
                 /\ AdminEmailTaken(email[1], {user_id})
              THEN ValidationError
              ELSE IF MissingDepartment(set.role, set.department) THEN ValidationError
              ELSE IF ~AdminRowFits(stored) THEN InternalError
              ELSE OK
      IN IF refused # OK
         THEN /\ last' = AdminAnswer("update_admin_user", Some(user_id), user_data, refused)
              /\ UNCHANGED <<users, queries, uploads, admin_users, now, sessions>>
         ELSE /\ admin_users' = [admin_users EXCEPT ![user_id] = stored]
              /\ last' = AdminAnswer("update_admin_user", Some(user_id), user_data, OK)
              /\ UNCHANGED <<users, queries, uploads, now, sessions>>

delete_admin_user(user_id) ==
    IF user_id \notin DOMAIN admin_users
    THEN /\ last' = AdminAnswer("delete_admin_user", Some(user_id), None, NotFound)
         /\ UNCHANGED <<users, queries, uploads, admin_users, now, sessions>>
    ELSE /\ admin_users' = Without(admin_users, user_id)
         /\ last' = AdminAnswer("delete_admin_user", Some(user_id), None, OK)
         /\ UNCHANGED <<users, queries, uploads, now, sessions>>

AdminBody(name, email, role, department) ==
    [name |-> name, email |-> email, role |-> role, department |-> department,
     phone |-> None, status |-> ACTIVE, password |-> "pw"]

Dept(n) == Some(AdminEnum("DepartmentType", n))

AdminCreates ==
    {AdminBody("Root", "root@example.com", MAIN_ADMIN, None),
     AdminBody("Root", "root@example.com", MAIN_ADMIN, Dept("IT")),
     AdminBody("Dee", "dee@example.com", DEPARTMENT_ADMIN, Dept("WARDEN")),
     AdminBody("Dee", "dee@example.com", DEPARTMENT_ADMIN, None)}

AdminUpdates ==
    {[role |-> Some(DEPARTMENT_ADMIN)],
     [role |-> Some(MAIN_ADMIN)],
     [department |-> None],
     [department |-> Dept("IT")],
     [role |-> Some(DEPARTMENT_ADMIN), department |-> Dept("RECTOR"), name |-> Some("Dee")],
     [role |-> Some(DEPARTMENT_ADMIN), department |-> None, name |-> Some("Nobody")],
     [role |-> None],
     [email |-> Some("root@example.com"), password |-> Some("new")]}

AdminIds == 1 .. 3

NextAdmin ==
    \/ \E d \in AdminCreates : create_admin_user(d)
    \/ \E u \in AdminIds, d \in AdminUpdates : update_admin_user(u, d)
    \/ \E u \in AdminIds : delete_admin_user(u)

SpecAdmin == Init /\ [][NextAdmin]_vars

\* The pairing of role and department in one stored admin user.
Paired(a) ==
    /\ a.role = Some(MAIN_ADMIN) => a.department = None
    /\ a.role = Some(DEPARTMENT_ADMIN) =>
          a.department \in {Dept(n) : n \in {"IT", "MAINTENANCE", "RECTOR",
                                              "WARDEN", "ADMINISTRATION"}}

\* The role and department a request asks a user to have: the ones it sets,
\* and for an update the stored ones where it sets none.
Wanted(field) ==
    IF last'.op = "create_admin_user"
    THEN IF field = "role" THEN Some(last'.req.role) ELSE last'.req.department
    ELSE IF field \in DOMAIN last'.req THEN last'.req[field]
         ELSE admin_users[last'.id[1]][field]

\* C14: every stored admin user has no department when its role is
\* MAIN_ADMIN and one of the five departments when its role is
\* DEPARTMENT_ADMIN; a create, or an update of a stored user, that would
\* leave a DEPARTMENT_ADMIN without a department fails with ValidationError
\* and leaves the table as it was.
C14_RoleDepartmentPairing ==
    /\ [](\A a \in DOMAIN admin_users : Paired(admin_users[a]))
    /\ [][(/\ \/ last'.op = "create_admin_user"
              \/ last'.op = "update_admin_user" /\ last'.id[1] \in DOMAIN admin_users
           /\ Wanted("role") = Some(DEPARTMENT_ADMIN)
           /\ Wanted("department") = None)
          => (last'.result = ValidationError /\ admin_users' = admin_users)]_vars

\* C14 happens: a department admin was asked to give up the department,
\* with a new name in the same request, and was refused; the stored user
\* still has the old name and the department.
C14_Witness ==
    /\ last.op = "update_admin_user" /\ last.result = ValidationError
    /\ last.id[1] \in DOMAIN admin_users
    /\ last.req = [role |-> Some(DEPARTMENT_ADMIN), department |-> None,
                   name |-> Some("Nobody")]
    /\ admin_users[last.id[1]].role = Some(DEPARTMENT_ADMIN)
    /\ admin_users[last.id[1]].department # None
    /\ admin_users[last.id[1]].name # Some("Nobody")
    /\ \E a \in DOMAIN admin_users : admin_users[a].role = Some(MAIN_ADMIN)

-----------------------------------------------------------------------------
(* Attachments: queries created with and without an inline attachment, by  *)
(* users that exist and that do not, and files uploaded to them.           *)

ScanPdf ==
    Some([filename |-> Some("scan.pdf"),
          content  |-> Some("data:application/pdf;base64,QUJD"),
          type     |-> Some("application/pdf"),
          size     |-> Some(3)])

AttachInputs ==
    {PrinterBroken,
     [PrinterBroken EXCEPT !.attachment_data = ScanPdf],
     [PrinterBroken EXCEPT !.subject = ""],
     [PrinterBroken EXCEPT !.description = "   ", !.attachment_data = ScanPdf]}

Files ==
    {Png,
     [filename |-> "notes.txt", content_type |-> "text/plain", size |-> 10 * 1024 * 1024],
     [filename |-> "photo.png", content_type |-> "image/png", size |-> 10 * 1024 * 1024 + 1],
     [filename |-> "anim.gif", content_type |-> "image/gif", size |-> 2048]}

NextAttach ==
    \/ Register
    \/ \E d \in AttachInputs, u \in UserIds, ok \in BOOLEAN :
          /\ RoomForQuery(MaxOpen)
          /\ (ok /\ d.attachment_data # None) => RoomForUpload
          /\ create_query(d, u, ok)
    \/ \E id \in 1 .. MaxOpen + 1, f \in Files, ok \in BOOLEAN :
          /\ (ok /\ id \in DOMAIN queries) => RoomForUpload
          /\ upload_attachment(id, f, ok)
    \/ \E id \in 1 .. MaxOpen : delete_query(id)

SpecAttach == Init /\ [][NextAttach]_vars

\* C15: an upload to a query id that is absent fails with NotFound, whatever
\* the file; to a stored query it fails with ValidationError when the type
\* is not JPEG, PNG, PDF or plain text and when the payload is larger than
\* 10 MiB, and a payload of exactly 10 MiB of an allowed type is not
\* refused; when it fails so, no file is written and no record changes.
C15_UploadRejects ==
    [][last'.op = "upload_attachment" =>
         LET f == last'.req
             stored == last'.id[1] \in DOMAIN queries
             typed == f.content_type \in {"image/jpeg", "image/png",
                                          "application/pdf", "text/plain"}
         IN /\ ~stored => last'.result = NotFound
            /\ (stored /\ ~typed) => last'.result = ValidationError
            /\ (stored /\ f.size > 10 * 1024 * 1024) => last'.result = ValidationError
            /\ (stored /\ typed /\ f.size <= 10 * 1024 * 1024) =>
                  last'.result \notin {NotFound, ValidationError}
            /\ last'.result \in {NotFound, ValidationError} =>
                  (queries' = queries /\ uploads' = uploads)]_vars

\* C15 happens: a payload of one byte more than 10 MiB, of an allowed type,
\* was refused for a stored query, which a payload of exactly 10 MiB had
\* been stored for before.
C15_Witness ==
    /\ last.op = "upload_attachment" /\ last.result = ValidationError
    /\ last.req.content_type = "image/png"
    /\ last.req.size = 10 * 1024 * 1024 + 1
    /\ last.id[1] \in DOMAIN queries
    /\ queries[last.id[1]].attachment_filename = Some("notes.txt")
    /\ Cardinality(uploads) = 1

\* C16: after a successful upload to a query that already carried an
\* attachment, no attachment field of the record still describes the
\* earlier one: the file name is the uploaded file's, and the path, type,
\* size and inline data are null or other than they were.
C16_UploadOverwritesAttachment ==
    (/\ last.op = "upload_attachment" /\ last.result = OK
     /\ last.before[1].attachment_filename # None)
    => /\ Current.attachment_filename = Some(last.req.filename)
       /\ \A field \in {"attachment_path", "attachment_type",
                        "attachment_size", "attachment_data"} :
             \/ Current[field] = None
             \/ Current[field] # last.before[1][field]

\* Strings of spaces.
Pads == {"", " ", "  ", "   "}

\* out is raw without the spaces at its ends.
Trimmed(raw, out) ==
    /\ \E a, b \in Pads : raw = a \o out \o b
    /\ out # "" => (SubSeq(out, 1, 1) # " " /\ SubSeq(out, Len(out), Len(out)) # " ")

\* C17: a create whose subject or description is empty or only whitespace
\* fails with ValidationError; one with a sound body whose user_id names no
\* user fails with NotFound; either way no query is stored and no file is
\* written.  Any other create succeeds and stores the trimmed subject and
\* description.
C17_CreateRejects ==
    [][last'.op = "create_query" =>
         LET raw == last'.req.data
             blank == raw.subject \in Pads \/ raw.description \in Pads
             known == last'.req.user_id \in DOMAIN users
         IN /\ blank => last'.result = ValidationError
            /\ (~blank /\ ~known) => last'.result = NotFound
            /\ last'.result \in {ValidationError, NotFound} =>
                  (queries' = queries /\ uploads' = uploads)
            /\ (~blank /\ known) =>
                  /\ last'.result = OK
                  /\ last'.id[1] \notin DOMAIN queries
                  /\ Trimmed(raw.subject, queries'[last'.id[1]].subject)
                  /\ Trimmed(raw.description, queries'[last'.id[1]].description)]_vars

\* C17 happens: a create with an inline attachment for a user that does not
\* exist was refused, and there is no query and no file.
C17_Witness ==
    /\ last.op = "create_query" /\ last.result = NotFound
    /\ last.req.data.attachment_data # None
    /\ users # <<>>
    /\ queries = <<>> /\ uploads = {}

-----------------------------------------------------------------------------
(* Updates of one query next to another: what an update may change, and    *)
(* what is left of it when the commit fails.                               *)

\* A query with a priority, a contact and an inline attachment.
Detailed ==
    [PrinterBroken EXCEPT !.priority = Some(SchemaEnum("QueryPriority", "HIGH")),
                          !.contact_info = Some("ext 5"),
                          !.attachment_data = ScanPdf]

\* Every updatable field is given by one of the requests and left out by
\* another; the last one asks for all the side effects at once.
FrameUpdates ==
    {[NoUpdate EXCEPT !.status = Some(SchemaEnum("QueryStatus", "RESOLVED")),
                      !.assigned_member_id = Some(7)],
     [NoUpdate EXCEPT !.category = Some(SchemaEnum("QueryCategory", "MAINTENANCE")),
                      !.assigned_to = Some("Bob")],
     [NoUpdate EXCEPT !.resolution_notes = Some("N"),
                      !.assigned_user = Some("Bob")],
     [NoUpdate EXCEPT !.admin_response = Some("T")],
     [NoUpdate EXCEPT !.status = Some(SchemaEnum("QueryStatus", "RESOLVED")),
                      !.assigned_to = Some("warden"),
                      !.admin_response = Some("T")]}

NextFrame ==
    \/ Register
    \/ \E u \in UserIds : RoomForQuery(MaxOpen + 1) /\ create_query(Detailed, u, FALSE)
    \/ Change(FrameUpdates)

SpecFrame == Init /\ [][NextFrame]_vars

\* The columns update_query has no assignment for.
Fixed ==
    {"user_id", "subject", "description", "priority", "contact_info",
     "created_at", "attachment_filename", "attachment_path", "attachment_type",
     "attachment_size", "attachment_data"}

\* The request leaves the column alone: the field is absent or null, and no
\* documented side effect of the request writes the column.
LeftAlone(r, field) ==
    /\ r[field] = None
    /\ field = "category" =>
          (r.assigned_to = None \/ DepartmentNamed(r.assigned_to[1]) = None)
    /\ field = "resolution_notes" => ~Truthy(r.admin_response)

\* C19: an update_query of a stored query leaves every updatable column
\* whose field is absent or null in the request at its previous value, apart
\* from the documented side effects (the category a department name in
\* assigned_to brings, the admin response appended to the notes, resolved_at
\* and updated_at); it never changes user_id, subject, description,
\* priority, contact_info, created_at or an attachment column; and it leaves
\* every other query as it was and adds or removes none.
C19_UpdateFrame ==
    [][(last'.op = "update_query" /\ last' # last /\ last'.id[1] \in DOMAIN queries) =>
          LET id == last'.id[1]
              r == last'.req
          IN /\ DOMAIN queries' = DOMAIN queries
             /\ \A k \in DOMAIN queries \ {id} : queries'[k] = queries[k]
             /\ \A f \in Fixed : queries'[id][f] = queries[id][f]
             /\ \A f \in {"status", "category", "assigned_to", "assigned_member_id",
                          "assigned_user", "resolution_notes"} :
                   LeftAlone(r, f) => queries'[id][f] = queries[id][f]]_vars

\* C19 happens: of two stored queries, both assigned to Bob, one was
\* updated with a status and a member id only: it has them, it is still
\* assigned to Bob, and it still has its priority, contact and attachment.
C19_Witness ==
    /\ UpdateDone
    /\ last.req = [NoUpdate EXCEPT
                      !.status = Some(SchemaEnum("QueryStatus", "RESOLVED")),
                      !.assigned_member_id = Some(7)]
    /\ Cardinality(DOMAIN queries) = 2
    /\ last.before[1].assigned_to = Some("Bob")
    /\ Current.assigned_to = Some("Bob")
    /\ Current.assigned_member_id = Some(7)
    /\ Current.status # last.before[1].status
    /\ Current.contact_info = Some("ext 5")
    /\ Current.attachment_filename = Some("scan.pdf")

\* C20: an update_query of a stored query whose commit fails reports
\* InternalError and leaves the whole table, the addressed record included,
\* as it was before the request.
C20_FailedCommitKeepsRecord ==
    [][\A id \in DOMAIN queries, r \in FrameUpdates :
          update_query(id, r, FALSE) =>
             /\ last'.result = InternalError
             /\ queries' = queries
             /\ queries'[id] = last'.before[1]]_vars

\* C20 happens: an update that asked for status RESOLVED, a department and
\* an admin response failed at the commit; the stored query is the one from
\* before, not yet resolved, in its old category and without notes, although
\* the same request committed would have changed it.
C20_Witness ==
    /\ last.op = "update_query" /\ last.result = InternalError
    /\ last.req = [NoUpdate EXCEPT
                      !.status = Some(SchemaEnum("QueryStatus", "RESOLVED")),
                      !.assigned_to = Some("warden"),
                      !.admin_response = Some("T")]
    /\ Current = last.before[1]
    /\ Current.status = ModelEnum("QueryStatus", "PENDING")
    /\ Current.category = ModelEnum("QueryCategory", "IT")
    /\ Current.resolution_notes = None
    /\ Refresh(Updated(Current, last.req)) # Current

-----------------------------------------------------------------------------
(* The directory read: departments with their members and head, the       *)
(* member lists, the department statistics, and users by id.               *)

\* The answer of a handler that reads.
Reply(op, id, req, result, response) ==
    [op |-> op, id |-> id, req |-> req, result |-> result, before |-> None,
     response |-> response]

\* The orders in which a SELECT without ORDER BY may return the rows S.
Orders(S) ==
    {s \in [1 .. Cardinality(S) -> S] : \A i, j \in DOMAIN s : s[i] = s[j] => i = j}

\* A member filter that forgets is_active.
ActiveMembers_All(dept_id) ==
    {u \in DOMAIN users : users[u].department = Some(dept_id)}

\* filter(User.department == dept_id, User.is_active == True)
ActiveMembers(dept_id) ==
    {u \in DOMAIN users : users[u].department = Some(dept_id) /\ users[u].is_active}

\* filter(User.department == dept_id, User.is_department_head == True,
\*        User.is_active == True)
FlaggedHeads(dept_id) ==
    {u \in DOMAIN users : /\ users[u].department = Some(dept_id)
                          /\ users[u].is_department_head
                          /\ users[u].is_active}

get_department(department_id) ==
    LET dept_id == Upper(department_id)
        req == [department_id |-> department_id]
    IN IF dept_id \notin DEPARTMENT_CONFIG
       THEN /\ last' = Reply("get_department", None, req, NotFound, None)
            /\ UNCHANGED <<users, queries, uploads, now, admin_users, sessions>>
       ELSE \E members \in Orders(ActiveMembers(dept_id)) :
            \E first \in IF FlaggedHeads(dept_id) # {}
                         THEN {Some(u) : u \in FlaggedHeads(dept_id)}
                         ELSE {None} :
               LET head == IF first = None /\ members # <<>>
                           THEN Some(members[1]) ELSE first
               IN /\ last' = Reply("get_department", None, req, OK,
                                   Some([id |-> dept_id, head |-> head,
                                         members |-> members,
                                         total_members |-> Len(members),
                                         active_members |->
                                            Cardinality({i \in DOMAIN members :
                                                users[members[i]].is_active})]))
                  /\ UNCHANGED <<users, queries, uploads, now, admin_users, sessions>>

get_department_members(department_id, include_inactive) ==
    LET dept_id == Upper(department_id)
        req == [department_id |-> department_id, include_inactive |-> include_inactive]
        rows == {u \in DOMAIN users :
                    /\ users[u].department = Some(dept_id)
                    /\ ~include_inactive => users[u].is_active}
    IN IF dept_id \notin DEPARTMENT_CONFIG
       THEN /\ last' = Reply("get_department_members", None, req, NotFound, None)
            /\ UNCHANGED <<users, queries, uploads, now, admin_users, sessions>>
       ELSE \E members \in Orders(rows) :
               /\ last' = Reply("get_department_members", None, req, OK,
                                Some([users |-> members, total |-> Len(members)]))
               /\ UNCHANGED <<users, queries, uploads, now, admin_users, sessions>>

\* a == b for an enum member a and a str b.  A member of a str-based schema
\* class is a str and compares by its value (the values are the names); a
\* member of a plain enum.Enum class is never equal to a str.
EnumEqStr(a, b) == a.module = "schemas.query" /\ a.name = b

\* db.query(Query).join(User).filter(User.department == dept_id)
DepartmentQueries(dept_id) ==
    {q \in DOMAIN queries :
        /\ queries[q].user_id \in DOMAIN users
        /\ users[queries[q].user_id].department = Some(dept_id)}

get_department_stats(department_id) ==
    LET dept_id == Upper(department_id)
        req == [department_id |-> department_id]
        all_members == {u \in DOMAIN users : users[u].department = Some(dept_id)}
        active_members == {m \in all_members : users[m].is_active}
        inactive_members == {m \in all_members : ~users[m].is_active}
        department_queries == DepartmentQueries(dept_id)
    IN IF dept_id \notin DEPARTMENT_CONFIG
       THEN /\ last' = Reply("get_department_stats", None, req, NotFound, None)
            /\ UNCHANGED <<users, queries, uploads, now, admin_users, sessions>>
       ELSE \E head \in IF FlaggedHeads(dept_id) # {}
                        THEN {Some(u) : u \in FlaggedHeads(dept_id)}
                        ELSE {None} :
               /\ last' = Reply("get_department_stats", None, req, OK,
                     Some([department_id |-> dept_id,
                           total_members |-> Cardinality(all_members),
                           active_members |-> Cardinality(active_members),
                           inactive_members |-> Cardinality(inactive_members),
                           has_head |-> head # None,
                           head_name |-> IF head # None
                                         THEN Some(users[head[1]].full_name) ELSE None,
                           total_queries |-> Cardinality(department_queries),
                           pending_queries |->
                              Cardinality({q \in department_queries :
                                              EnumEqStr(queries[q].status, "pending")}),
                           resolved_queries |->
                              Cardinality({q \in department_queries :
                                              EnumEqStr(queries[q].status, "resolved")})]))
               /\ UNCHANGED <<users, queries, uploads, now, admin_users, sessions>>

get_user_by_id(user_id) ==
    /\ last' = IF user_id \in DOMAIN users
               THEN Reply("get_user_by_id", Some(user_id), None, OK, Some(users[user_id]))
               ELSE Reply("get_user_by_id", Some(user_id), None, NotFound, None)
    /\ UNCHANGED <<users, queries, uploads, now, admin_users, sessions>>

(* The directory: two people, one department named in two letter cases    *)
(* and one that is not configured.                                         *)

DirDepartments == {"it", "IT", "physics"}

DirSignups ==
    {[Member("Ann", "ann@example.com") EXCEPT !.role = Some("it")],
     [Member("Bob", "bob@example.com") EXCEPT !.department = Some("physics")]}

DirMembers ==
    {Member("Bob", "bob@example.com"),
     [Member("Bob", "bob@example.com") EXCEPT !.confirm_password = "pv"]}

DirUpdates == {[is_department_head |-> Some(TRUE)], [position |-> Some("Dean")]}

DirIds == 1 .. 3

NextDir ==
    \/ \E d \in DirSignups : signup(d)
    \/ \E dep \in DirDepartments, d \in DirMembers : add_department_member(dep, d)
    \/ \E dep \in DirDepartments, u \in DirIds : set_department_head(dep, u)
    \/ \E dep \in DirDepartments, u \in DirIds, d \in DirUpdates :
          update_department_member(dep, u, d)
    \/ \E dep \in DirDepartments, u \in DirIds : remove_department_member(dep, u)
    \/ \E dep \in DirDepartments : get_department(dep)
    \/ \E dep \in DirDepartments, all \in BOOLEAN : get_department_members(dep, all)
    \/ \E dep \in DirDepartments : get_department_stats(dep)
    \/ \E u \in DirIds : get_user_by_id(u)
    \/ \E u \in DirIds : delete_team_member(u)

SpecDir == Init /\ [][NextDir]_vars

\* The department handlers.
DepartmentOps ==
    {"get_department", "get_department_members", "get_department_stats",
     "add_department_member", "set_department_head", "update_department_member",
     "remove_department_member"}

\* C21: every department operation takes the department identifier in any
\* letter case.  When the identifier names none of the five departments the
\* operation fails with NotFound, whatever else is wrong with the request,
\* and no user changes.  When it names a department in lower or upper case,
\* the reads succeed and answer for that department, a new member with
\* matching passwords and a free email is stored in that department, and a
\* member operation on a user of that department succeeds.
C21_DepartmentIdNormalized ==
    [][(last'.op \in DepartmentOps /\ last' # last) =>
          LET D == DepartmentNamed(last'.req.department_id)
              op == last'.op
          IN IF D = None
             THEN last'.result = NotFound /\ users' = users
             ELSE /\ op \in {"get_department", "get_department_members",
                             "get_department_stats"} =>
                        (last'.result = OK /\ users' = users)
                  /\ op = "get_department" => last'.response[1].id = D[1]
                  /\ op = "get_department_stats" =>
                        last'.response[1].department_id = D[1]
                  /\ (/\ op = "add_department_member"
                      /\ last'.req.data.password = last'.req.data.confirm_password
                      /\ ~\E u \in DOMAIN users :
                             users[u].email = last'.req.data.email) =>
                        /\ last'.result = OK
                        /\ users'[last'.id[1]].department = D
                  /\ (/\ op \in {"set_department_head", "update_department_member",
                                 "remove_department_member"}
                      /\ last'.id[1] \in DOMAIN users
                      /\ users[last'.id[1]].department = D) =>
                        last'.result = OK]_vars

\* C21 happens: a member was added to "it" and is stored in IT, and a
\* request for a department that is not configured, with passwords that
\* differ, was answered NotFound.
C21_Witness ==
    \/ /\ last.op = "add_department_member" /\ last.result = OK
       /\ last.req.department_id = "it"
       /\ users[last.id[1]].department = Some("IT")
    \/ /\ last.op = "add_department_member" /\ last.result = NotFound
       /\ last.req.department_id = "physics"
       /\ last.req.data.password # last.req.data.confirm_password
       /\ users # <<>>

\* C22: in every state each stored user's department is null or one of the
\* five configured department identifiers, in upper case.
C22_DepartmentIsConfigured ==
    \A u \in DOMAIN users :
        users[u].department = None \/ users[u].department[1] \in DEPARTMENT_CONFIG

\* C23: get_department of a valid department D returns as members exactly
\* the users with department D that are active, each once; as head a
\* returned member flagged is_department_head when there is one, otherwise
\* the first returned member; the head is null exactly when there is no
\* member, and a head that is not null is one of the returned members.
C23_DepartmentMembersAndHead ==
    (last.op = "get_department" /\ last.result = OK) =>
        LET D == DepartmentNamed(last.req.department_id)
            r == last.response[1]
            flagged == {u \in Range(r.members) : users[u].is_department_head}
        IN /\ Range(r.members) =
                 {u \in DOMAIN users : users[u].department = D /\ users[u].is_active}
           /\ Len(r.members) = Cardinality(Range(r.members))
           /\ IF flagged # {} THEN r.head # None /\ r.head[1] \in flagged
              ELSE IF r.members # <<>> THEN r.head = Some(r.members[1])
              ELSE r.head = None
           /\ r.head = None <=> r.members = <<>>
           /\ r.head # None => r.head[1] \in Range(r.members)

\* C23 happens: IT has two active members; the head returned is the
\* flagged member, who is not the first of the members.
C23_Witness ==
    /\ last.op = "get_department" /\ last.result = OK
    /\ Len(last.response[1].members) = 2
    /\ last.response[1].head # Some(last.response[1].members[1])
    /\ users[last.response[1].head[1]].is_department_head

\* C28: remove_department_member deletes no user: on success the user's
\* is_active is false and every other field of that user and every other
\* user are as before; otherwise no user changes.  A user that was removed
\* is still returned by get_user_by_id, and the only operation after which
\* a stored user is gone is delete_team_member.
C28_RemoveIsSoft ==
    [][/\ (last'.op = "remove_department_member" /\ last' # last) =>
             IF last'.result = OK
             THEN /\ last'.id[1] \in DOMAIN users
                  /\ users' = [users EXCEPT ![last'.id[1]].is_active = FALSE]
             ELSE users' = users
       /\ (last'.op = "get_user_by_id" /\ last'.id[1] \in DOMAIN users) =>
             (last'.result = OK /\ last'.response = Some(users[last'.id[1]]))
       /\ (DOMAIN users \ DOMAIN users' # {}) => last'.op = "delete_team_member"]_vars

\* C28 happens: the head of IT was removed and is then read by id: the
\* record is there, inactive, with its department and its head flag.
C28_Witness ==
    /\ last.op = "get_user_by_id" /\ last.result = OK
    /\ ~last.response[1].is_active
    /\ last.response[1].department = Some("IT")
    /\ last.response[1].is_department_head
    /\ Cardinality(DOMAIN users) = 2

(* Department statistics over the queries of the members.                  *)

OwnedUpdates ==
    {[NoUpdate EXCEPT !.status = Some(SchemaEnum("QueryStatus", n))] :
        n \in {"RESOLVED", "PENDING"}}

NextOwned ==
    \/ \E d \in DirSignups : signup(d)
    \/ Open({PrinterBroken})
    \/ Change(OwnedUpdates)
    \/ \E dep \in DirDepartments : get_department_stats(dep)

SpecOwned == Init /\ [][NextOwned]_vars

\* C24: get_department_stats of department D reports as total_queries the
\* number of queries whose owner's department is D, as pending_queries the
\* number of those with status PENDING and as resolved_queries the number
\* of those with status RESOLVED.
C24_StatsCountByStatus ==
    (last.op = "get_department_stats" /\ last.result = OK) =>
        LET D == DepartmentNamed(last.req.department_id)
            r == last.response[1]
            owned == {q \in DOMAIN queries : users[queries[q].user_id].department = D}
        IN /\ r.total_queries = Cardinality(owned)
           /\ r.pending_queries =
                 Cardinality({q \in owned :
                                 queries[q].status = ModelEnum("QueryStatus", "PENDING")})
           /\ r.resolved_queries =
                 Cardinality({q \in owned :
                                 queries[q].status = ModelEnum("QueryStatus", "RESOLVED")})

-----------------------------------------------------------------------------
(* Logging in: users by the SHA-256 digest, admin users by bcrypt and      *)
(* their status.                                                           *)

\* HTTP 401.
AuthenticationError == "AuthenticationError"

\* User.verify_password
verify_password(user, password) == user.password_hash = hash_password(password)

login(user_data) ==
    LET found == {u \in DOMAIN users : users[u].email = user_data.email} IN
    /\ last' =
          IF found = {}
          THEN Reply("login", None, user_data, AuthenticationError, None)
          ELSE LET u == CHOOSE x \in found : TRUE
               IN IF ~verify_password(users[u], user_data.password)
                  THEN Reply("login", Some(u), user_data, AuthenticationError, None)
                  ELSE Reply("login", Some(u), user_data, OK, Some(users[u]))
    /\ UNCHANGED <<users, queries, uploads, now, admin_users, sessions>>

\* bcrypt.checkpw
admin_verify_password(password, hashed) == hashed = Some(admin_hash_password(password))

login_admin(login_data) ==
    LET found == {a \in DOMAIN admin_users : admin_users[a].email = Some(login_data.email)}
    IN IF found = {}
       THEN /\ last' = Reply("login_admin", None, login_data, AuthenticationError, None)
            /\ UNCHANGED <<users, queries, uploads, now, admin_users, sessions>>
       ELSE LET a == CHOOSE x \in found : TRUE IN
            IF ~admin_verify_password(login_data.password, admin_users[a].password_hash)
            THEN /\ last' = Reply("login_admin", Some(a), login_data,
                                  AuthenticationError, None)
                 /\ UNCHANGED <<users, queries, uploads, now, admin_users, sessions>>
            ELSE IF admin_users[a].status # Some(ACTIVE)
            THEN /\ last' = Reply("login_admin", Some(a), login_data,
                                  AuthenticationError, None)
                 /\ UNCHANGED <<users, queries, uploads, now, admin_users, sessions>>
            ELSE /\ admin_users' = [admin_users EXCEPT ![a].last_login = Some(now),
                                                       ![a].updated_at = now]
                 /\ last' = Reply("login_admin", Some(a), login_data, OK,
                                  Some(admin_users'[a]))
                 /\ UNCHANGED <<users, queries, uploads, now, sessions>>

Logins ==
    {[email |-> m, password |-> w] :
        m \in {"ann@example.com", "root@example.com"}, w \in {"pw", "px"}}

StatusUpdates ==
    {[status |-> Some(AdminEnum("AdminStatus", n))] : n \in {"ACTIVE", "INACTIVE", "SUSPENDED"}}

NextLogin ==
    \/ \E d \in DirSignups : signup(d)
    \/ \E u \in UserIds : remove_department_member("IT", u)
    \/ \E d \in Logins : login(d)
    \/ \E d \in {AdminBody("Root", "root@example.com", MAIN_ADMIN, None)} :
          create_admin_user(d)
    \/ \E a \in UserIds, d \in StatusUpdates : update_admin_user(a, d)
    \/ \E d \in Logins : login_admin(d)
    \/ Tick

SpecLogin == Init /\ [][NextLogin]_vars

\* C25: a user login succeeds exactly when a user has the email, the
\* password verifies and the user is active (not soft-deleted); an admin
\* login succeeds exactly when an admin user has the email, the password
\* verifies and the status is ACTIVE.  Every other attempt fails with
\* AuthenticationError.  last_login is set, to the time of the login, by a
\* successful admin login and by nothing else.
C25_LoginRejects ==
    [][/\ (last'.op = "login" /\ last' # last) =>
             LET ok == \E u \in DOMAIN users :
                          /\ users[u].email = last'.req.email
                          /\ users[u].password_hash = hash_password(last'.req.password)
                          /\ users[u].is_active
             IN last'.result = IF ok THEN OK ELSE AuthenticationError
       /\ (last'.op = "login_admin" /\ last' # last) =>
             LET ok == \E a \in DOMAIN admin_users :
                          /\ admin_users[a].email = Some(last'.req.email)
                          /\ admin_users[a].password_hash =
                                Some(admin_hash_password(last'.req.password))
                          /\ admin_users[a].status = Some(ACTIVE)
             IN IF ok
                THEN /\ last'.result = OK
                     /\ admin_users'[last'.id[1]].last_login = Some(now)
                ELSE /\ last'.result = AuthenticationError
                     /\ admin_users' = admin_users
       /\ (\E a \in DOMAIN admin_users \cap DOMAIN admin_users' :
              admin_users'[a].last_login # admin_users[a].last_login) =>
             (last'.op = "login_admin" /\ last'.result = OK)]_vars

-----------------------------------------------------------------------------
(* Requests in progress at the same time.  A handler runs in the session   *)
(* of its request: what it reads is what was committed when it read, what  *)
(* it assigns is written when it commits.                                  *)

\* Another worker is in the middle of a request.
Overlaps(w) == \E v \in Workers \ {w} : sessions[v].pc \notin {"idle", "done"}

\* The UPDATE the flush emits for a loaded record: the columns whose
\* assigned value differs from the loaded one are written, the others stay
\* as they are stored; onupdate=func.now() gives updated_at.
Flushed(stored, loaded, q) ==
    [[f \in DOMAIN stored |-> IF q[f] # loaded[f] THEN Refresh(q)[f] ELSE stored[f]]
        EXCEPT !.updated_at = now]

\* update_query up to the lookup of the record (the 404 included).
begin_update_query(w, query_id, query_update) ==
    /\ sessions[w].pc \in {"idle", "done"}
    /\ IF query_id \notin DOMAIN queries
       THEN /\ sessions' = [sessions EXCEPT ![w] =
                              [pc |-> "done", op |-> "update_query", id |-> query_id,
                               req |-> query_update, result |-> NotFound,
                               overlap |-> Overlaps(w)]]
            /\ last' = [op |-> "update_query", id |-> Some(query_id),
                        req |-> query_update, result |-> NotFound, before |-> None]
       ELSE /\ sessions' = [sessions EXCEPT ![w] =
                              [pc |-> "loaded", op |-> "update_query", id |-> query_id,
                               req |-> query_update, row |-> queries[query_id],
                               overlap |-> Overlaps(w)]]
            /\ last' = last
    /\ UNCHANGED <<users, queries, uploads, admin_users, now>>

\* update_query from the assignments to the commit.  The UPDATE of a row
\* that is gone matches nothing: the flush raises and the handler answers
\* 500.
commit_update_query(w) ==
    /\ sessions[w].pc = "loaded"
    /\ sessions[w].op = "update_query"
    /\ LET s == sessions[w]
           q == Updated(s.row, s.req)
       IN IF s.id \notin DOMAIN queries
          THEN /\ queries' = queries
               /\ sessions' = [sessions EXCEPT ![w] =
                                 [pc |-> "done", op |-> s.op, id |-> s.id, req |-> s.req,
                                  result |-> InternalError, overlap |-> s.overlap]]
               /\ last' = [op |-> "update_query", id |-> Some(s.id), req |-> s.req,
                           result |-> InternalError, before |-> None]
          ELSE /\ queries' = [queries EXCEPT ![s.id] = Flushed(@, s.row, q)]
               /\ sessions' = [sessions EXCEPT ![w] =
                                 [pc |-> "done", op |-> s.op, id |-> s.id, req |-> s.req,
                                  result |-> OK, overlap |-> s.overlap, row |-> s.row,
                                  at |-> now]]
               /\ last' = [op |-> "update_query", id |-> Some(s.id), req |-> s.req,
                           result |-> OK, before |-> Some(queries[s.id])]
    /\ UNCHANGED <<users, uploads, admin_users, now>>

RaceUpdates ==
    {[NoUpdate EXCEPT !.status = Some(SchemaEnum("QueryStatus", n))] :
        n \in {"RESOLVED", "IN_PROGRESS"}}

NextRace ==
    \/ Register
    \/ Open({PrinterBroken})
    \/ \E w \in Workers, id \in 1 .. MaxOpen + 1, r \in RaceUpdates :
          begin_update_query(w, id, r)
    \/ \E w \in Workers : commit_update_query(w)
    \/ Tick

SpecRace == Init /\ [][NextRace]_vars

\* Worker w has committed an update that asked for RESOLVED on a query it
\* had read as unresolved.
Resolving(w) ==
    /\ sessions[w].pc = "done" /\ sessions[w].op = "update_query"
    /\ sessions[w].result = OK
    /\ sessions[w].req.status = Some(SchemaEnum("QueryStatus", "RESOLVED"))
    /\ sessions[w].row.resolved_at = None

\* C26: when two update_query requests that both ask for RESOLVED on the
\* same query, both having read it as unresolved, one having started while
\* the other was in progress, have both committed, resolved_at is the time
\* of the commit that came first.
C26_ResolvedOnceUnderRace ==
    \A w, v \in Workers :
        (/\ w # v /\ Resolving(w) /\ Resolving(v)
         /\ sessions[w].id = sessions[v].id
         /\ sessions[w].id \in DOMAIN queries
         /\ sessions[v].overlap
         /\ sessions[w].at <= sessions[v].at) =>
            queries[sessions[w].id].resolved_at = Some(sessions[w].at)

(* Two workers change the head of a department.  The bulk UPDATE that      *)
(* clears the flags runs at once, inside the transaction of its session:   *)
(* it takes the write lock of the store, which the session holds until it  *)
(* commits, and what it wrote is seen by the others only then.             *)

\* No other session holds the write lock.
LockFree(w) == \A v \in Workers \ {w} : sessions[v].pc # "cleared"

\* set_department_head up to the checks of the department and the user.
begin_set_department_head(w, department_id, user_id) ==
    /\ sessions[w].pc \in {"idle", "done"}
    /\ LET dept_id == Upper(department_id)
           req == [department_id |-> department_id]
           refused == MemberCheck(dept_id, user_id)
       IN IF refused # OK
          THEN /\ sessions' = [sessions EXCEPT ![w] =
                                 [pc |-> "done", op |-> "set_department_head",
                                  id |-> user_id, dept_id |-> dept_id,
                                  result |-> refused, overlap |-> Overlaps(w)]]
               /\ last' = Answer("set_department_head", Some(user_id), req, refused)
          ELSE /\ sessions' = [sessions EXCEPT ![w] =
                                 [pc |-> "checked", op |-> "set_department_head",
                                  id |-> user_id, dept_id |-> dept_id, req |-> req,
                                  overlap |-> Overlaps(w)]]
               /\ last' = last
    /\ UNCHANGED <<users, queries, uploads, admin_users, now>>

\* The bulk UPDATE: the rows of the department as they are committed now,
\* with the flag cleared, are the writes of the session.
clear_department_heads(w) ==
    /\ sessions[w].pc = "checked"
    /\ LockFree(w)
    /\ sessions' = [sessions EXCEPT ![w] =
                      [@ EXCEPT !.pc = "cleared"] @@
                      [written |-> ClearHeads(users, sessions[w].dept_id)]]
    /\ UNCHANGED <<users, queries, uploads, admin_users, now, last>>

\* The bulk UPDATE while another session holds the write lock, when the
\* wait for the lock runs out: the statement raises and the request is
\* answered 500.
clear_department_heads_busy(w) ==
    /\ sessions[w].pc = "checked"
    /\ ~LockFree(w)
    /\ sessions' = [sessions EXCEPT ![w] =
                      [pc |-> "done", op |-> "set_department_head",
                       id |-> sessions[w].id, dept_id |-> sessions[w].dept_id,
                       result |-> InternalError, overlap |-> TRUE]]
    /\ last' = Answer("set_department_head", Some(sessions[w].id), sessions[w].req,
                      InternalError)
    /\ UNCHANGED <<users, queries, uploads, admin_users, now>>

\* No session holds the write lock: a handler that writes can run.
NoWriter == \A v \in Workers : sessions[v].pc # "cleared"

\* user.is_department_head = True; db.commit()
commit_set_department_head(w) ==
    /\ sessions[w].pc = "cleared"
    /\ LET s == sessions[w] IN
       /\ users' = [s.written EXCEPT ![s.id].is_department_head = TRUE]
       /\ sessions' = [sessions EXCEPT ![w] =
                         [pc |-> "done", op |-> "set_department_head", id |-> s.id,
                          dept_id |-> s.dept_id, result |-> OK, overlap |-> s.overlap]]
       /\ last' = Answer("set_department_head", Some(s.id), s.req, OK)
    /\ UNCHANGED <<queries, uploads, admin_users, now>>

NextHeads ==
    \/ \E d \in DirSignups : NoWriter /\ signup(d)
    \/ \E d \in DirMembers : NoWriter /\ add_department_member("it", d)
    \/ \E w \in Workers, dep \in {"it", "physics"}, u \in DirIds :
          begin_set_department_head(w, dep, u)
    \/ \E w \in Workers : clear_department_heads(w)
    \/ \E w \in Workers : clear_department_heads_busy(w)
    \/ \E w \in Workers : commit_set_department_head(w)

SpecHeads == Init /\ [][NextHeads]_vars

\* Worker w has made a user head of department d.
MadeHead(w, d) ==
    /\ sessions[w].pc = "done" /\ sessions[w].op = "set_department_head"
    /\ sessions[w].result = OK /\ sessions[w].dept_id = d

\* Worker w has completed a request for a member of department d: it has
\* made the user head, or it has failed at the store.
Completed(w, d) ==
    /\ sessions[w].pc = "done" /\ sessions[w].op = "set_department_head"
    /\ sessions[w].result \in {OK, InternalError} /\ sessions[w].dept_id = d

\* C27: when two set_department_head requests for the same department and
\* different users of it, one having started while the other was in
\* progress, have both completed, exactly one user of the department is
\* flagged as head.
C27_OneHeadUnderRace ==
    \A w, v \in Workers : \A d \in DEPARTMENT_CONFIG :
        (/\ w # v /\ Completed(w, d) /\ Completed(v, d)
         /\ sessions[w].id # sessions[v].id
         /\ sessions[w].overlap \/ sessions[v].overlap) =>
            Cardinality({u \in DOMAIN users :
                            /\ users[u].department = Some(d)
                            /\ users[u].is_department_head}) = 1

\* C27 happens: both workers had passed their checks before either wrote,
\* and both have made their user head of IT.
C27_Witness ==
    /\ MadeHead("w1", "IT") /\ MadeHead("w2", "IT")
    /\ sessions["w1"].id # sessions["w2"].id
    /\ sessions["w1"].overlap \/ sessions["w2"].overlap
    /\ Cardinality(Heads) = 1

-----------------------------------------------------------------------------
(* Invariants of the stored queries.                                       *)

\* C29: in every state a query whose status is RESOLVED has a resolved_at
\* that is not null.
C29_ResolvedHasStamp ==
    \A q \in DOMAIN queries :
        queries[q].status = ModelEnum("QueryStatus", "RESOLVED") =>
            queries[q].resolved_at # None

(* Users and their queries: users sign up, are added as team members and   *)
(* deleted, while queries are created, changed and deleted.                *)

NextOwners ==
    \/ Register
    \/ \E m \in TeamInputs : create_team_member(m)
    \/ \E u \in DirIds : delete_team_member(u)
    \/ \E d \in {PrinterBroken}, u \in DirIds :
          RoomForQuery(MaxQueries) /\ create_query(d, u, TRUE)
    \/ \E id \in 1 .. MaxQueries, r \in StoreUpdates : update_query(id, r, TRUE)
    \/ \E id \in 1 .. MaxQueries : delete_query(id)

SpecOwners == Init /\ [][NextOwners]_vars

\* C30: in every state each stored query's user_id is the id of a stored
\* user.
C30_OwnerExists ==
    \A q \in DOMAIN queries : queries[q].user_id \in DOMAIN users

\* C30 happens: the deletion of a team member who owns a query was refused;
\* the member and the query are both stored, beside another user.
C30_Witness ==
    /\ last.op = "delete_team_member" /\ last.result = InternalError
    /\ last.id[1] \in DOMAIN users
    /\ \E q \in DOMAIN queries : queries[q].user_id = last.id[1]
    /\ Cardinality(DOMAIN users) = 2

====
